---- MODULE Spec2Model ----
(***************************************************************************)
(* Optimize1qGatesDecomposition (qiskit/transpiler/passes/optimization/    *)
(* optimize_1q_decomposition.py): the pass is built from a basis and a     *)
(* target, and run() is applied to a circuit graph, twice in succession.   *)
(*                                                                         *)
(* Abstractions.  A 2x2 unitary is a pair <<rot, phase>> of a finite       *)
(* abelian group (rotation class modulo NumRot, scalar phase modulo        *)
(* NumPhase); composing gates adds the pairs.  An error probability e is   *)
(* kept on the integer scale -log(1 - e), so that the complement of a      *)
(* product of fidelities is a sum, 0 stays 0 and the order is kept.        *)
(***************************************************************************)
EXTENDS Integers, Sequences, FiniteSets, TLC

(* ---------------------------- bounds ----------------------------------- *)
NumQubits == 2
MaxOps == 3
NumRot == 3
NumPhase == 2
MaxBlocks == 2
MaxFlowOps == 2
NumRfmQubits == 2
MaxRfmOps == 3
MaxBackendQubits == 20
MaxIndex == 3
MaxListLen == 2
MaxRuns == 2

(* ---------------------------- helpers ---------------------------------- *)
None == [tag |-> "None"]
Some(v) == [tag |-> "Some", val |-> v]
IsNone(o) == o.tag = "None"

Range(s) == {s[i] : i \in 1..Len(s)}

Qubits == 0..(NumQubits - 1)

(* ------------------ gates and their matrices --------------------------- *)
\* Gates without parameters; every other gate name takes one angle.
FixedGates == {"x", "sx", "h", "cx"}

\* Rotation class of a gate: fixed for a parameterless gate, the angle
\* otherwise.  x and h are inverse to each other in the rotation group.
GateRot(name, params) ==
    IF name = "x" THEN 1
    ELSE IF name = "h" THEN NumRot - 1
    ELSE IF name = "sx" THEN 1
    ELSE params[1] % NumRot

\* Scalar phase of a gate's matrix: the rz-like gates carry one.
GatePhase(name, params) ==
    IF name \in {"rz", "rx", "ry", "x"} THEN 1 % NumPhase ELSE 0

\* Matrix of an ordered list of operations (product = componentwise sum).
RECURSIVE SeqMatrix(_)
SeqMatrix(ops) ==
    IF ops = <<>> THEN <<0, 0>>
    ELSE LET rest == SeqMatrix(Tail(ops))
             g == Head(ops)
         IN <<(GateRot(g.name, g.params) + rest[1]) % NumRot,
              (GatePhase(g.name, g.params) + rest[2]) % NumPhase>>

(* ------------------- Euler basis families ------------------------------ *)
EulerBasisNames ==
    <<"U3", "U321", "U", "PSX", "U1X", "RR", "ZYZ", "ZXZ", "XZX", "XYX", "ZSXX", "ZSX">>

ONE_QUBIT_EULER_BASIS_GATES ==
    [n \in Range(EulerBasisNames) |->
        CASE n = "U3" -> <<"u3">>
          [] n = "U321" -> <<"u3", "u2", "u1">>
          [] n = "U" -> <<"u">>
          [] n = "PSX" -> <<"p", "sx">>
          [] n = "U1X" -> <<"u1", "rx">>
          [] n = "RR" -> <<"r">>
          [] n = "ZYZ" -> <<"rz", "ry">>
          [] n = "ZXZ" -> <<"rz", "rx">>
          [] n = "XZX" -> <<"rz", "rx">>
          [] n = "XYX" -> <<"rx", "ry">>
          [] n = "ZSXX" -> <<"rz", "sx", "x">>
          [] n = "ZSX" -> <<"rz", "sx">>]

\* list.remove(name): drops the first occurrence.
ListRemove(l, name) ==
    LET i == CHOOSE k \in 1..Len(l) : l[k] = name /\ \A j \in 1..(k - 1) : l[j] # name
    IN [k \in 1..(Len(l) - 1) |-> IF k < i THEN l[k] ELSE l[k + 1]]

\* Variant: ZSX is kept next to ZSXX.
possible_decomposers_KeepZSX(basis_set) ==
    IF IsNone(basis_set) THEN EulerBasisNames
    ELSE LET d0 == SelectSeq(EulerBasisNames,
                      LAMBDA n : Range(ONE_QUBIT_EULER_BASIS_GATES[n]) \subseteq basis_set.val)
         IN IF "U3" \in Range(d0) /\ "U321" \in Range(d0)
            THEN ListRemove(d0, "U3") ELSE d0

\* Variant: the general family is kept next to the specialised one.
possible_decomposers_KeepGeneral(basis_set) ==
    IF IsNone(basis_set) THEN EulerBasisNames
    ELSE SelectSeq(EulerBasisNames,
             LAMBDA n : Range(ONE_QUBIT_EULER_BASIS_GATES[n]) \subseteq basis_set.val)

\* _possible_decomposers(basis_set); basis_set is None or Some(set of names).
possible_decomposers(basis_set) ==
    IF IsNone(basis_set) THEN EulerBasisNames
    ELSE LET d0 == SelectSeq(EulerBasisNames,
                      LAMBDA n : Range(ONE_QUBIT_EULER_BASIS_GATES[n]) \subseteq basis_set.val)
             d1 == IF "U3" \in Range(d0) /\ "U321" \in Range(d0)
                   THEN ListRemove(d0, "U3") ELSE d0
             d2 == IF "ZSX" \in Range(d1) /\ "ZSXX" \in Range(d1)
                   THEN ListRemove(d1, "ZSX") ELSE d1
         IN d2

(* --------------------------- target ------------------------------------ *)
\* A target is [num_qubits, gate_map]: num_qubits is None or Some(n) and
\* gate_map is a set of entries [gate, qargs, error]; qargs is None for an
\* operation defined for all qubits, error is None when no error is given.
Entry(g, qargs, err) == [gate |-> g, qargs |-> qargs, error |-> err]

\* Target.operation_names_for_qargs(qargs): the names at exactly these
\* qargs plus the globally defined ones; a target without qubit count
\* answers with its globally defined operations.
\* None stands for the KeyError of an unknown qargs.
operation_names_for_qargs(target, qargs) ==
    LET glob == {e.gate : e \in {x \in target.gate_map : IsNone(x.qargs)}}
        at == {e.gate : e \in {x \in target.gate_map : x.qargs = Some(qargs)}}
    IN IF IsNone(target.num_qubits) \/ target.num_qubits = Some(0)
       THEN (IF glob = {} THEN None ELSE Some(glob))
       ELSE IF \E i \in 1..Len(qargs) : qargs[i] \notin 0..(target.num_qubits.val - 1)
       THEN None
       ELSE IF at \cup glob = {} THEN None ELSE Some(at \cup glob)

(* ----------------------- pass construction ----------------------------- *)
\* Python truthiness of the basis argument: None and [] are false.
Truthy(basis) == ~IsNone(basis) /\ basis.val # <<>>

\* Variant: every entry whose qargs hold the qubit is recorded.
build_error_map_AnyQargs(target) ==
    IF ~IsNone(target) /\ ~IsNone(target.val.num_qubits)
    THEN Some([i \in 1..target.val.num_qubits.val |->
                 LET has == {e \in target.val.gate_map :
                               /\ ~IsNone(e.qargs)
                               /\ (i - 1) \in Range(e.qargs.val)
                               /\ ~IsNone(e.error)}
                 IN [g \in {e.gate : e \in has} |->
                       (CHOOSE e \in has : e.gate = g).error.val]])
    ELSE None

\* _build_error_map: None, or Some(sequence indexed by qubit + 1 of the
\* functions gate -> error of that qubit).
build_error_map(target) ==
    IF ~IsNone(target) /\ ~IsNone(target.val.num_qubits)
    THEN Some([i \in 1..target.val.num_qubits.val |->
                 LET has == {e \in target.val.gate_map :
                               e.qargs = Some(<<i - 1>>) /\ ~IsNone(e.error)}
                 IN [g \in {e.gate : e \in has} |->
                       (CHOOSE e \in has : e.gate = g).error.val]])
    ELSE None

\* Variant: an empty basis list is kept as the basis and restricts the
\* catalog.
NewPass_EmptyBasisKept(basis, target) ==
    [basis_gates |-> basis,
     target |-> target,
     global_decomposers |->
        IF ~IsNone(basis) THEN possible_decomposers(Some(Range(basis.val)))
        ELSE IF IsNone(target) THEN possible_decomposers(None)
        ELSE <<>>,
     local_decomposers_cache |-> {},
     error_map |-> build_error_map(target)]

\* __init__(basis, target)
NewPass(basis, target) ==
    [basis_gates |-> IF ~Truthy(basis) /\ IsNone(target) THEN None ELSE basis,
     target |-> target,
     global_decomposers |->
        IF Truthy(basis) THEN possible_decomposers(Some(Range(basis.val)))
        ELSE IF IsNone(target) THEN possible_decomposers(None)
        ELSE <<>>,
     local_decomposers_cache |-> {},
     error_map |-> build_error_map(target)]

\* _get_decomposer(qubit): the cache is only ever read, and it is empty.
get_decomposer(self, qubit) ==
    IF ~IsNone(self.target) /\ ~IsNone(self.target.val.num_qubits)
    THEN (IF \E c \in self.local_decomposers_cache : c[1] = <<qubit>>
          THEN (CHOOSE c \in self.local_decomposers_cache : c[1] = <<qubit>>)[2]
          ELSE possible_decomposers(
                   operation_names_for_qargs(self.target.val, <<qubit>>)))
    ELSE self.global_decomposers

(* ------------------------ synthesis oracle ----------------------------- *)
\* Error of a gate on a qubit: the table entry, 0 when there is none.
GateError(error_map, qubit, name) ==
    IF name \in DOMAIN error_map.val[qubit + 1]
    THEN error_map.val[qubit + 1][name] ELSE 0

RECURSIVE SumErrors(_, _, _)
SumErrors(error_map, qubit, names) ==
    IF names = <<>> THEN 0
    ELSE GateError(error_map, qubit, Head(names))
         + SumErrors(error_map, qubit, Tail(names))

\* compute_error: the pair (error, number of gates); without an error
\* table the number of gates stands for the error.
compute_error(names, qubit, error_map) ==
    IF IsNone(error_map) THEN <<Len(names), Len(names)>>
    ELSE <<SumErrors(error_map, qubit, names), Len(names)>>

\* Python's < on two (error, length) tuples.
TupleLess(a, b) == a[1] < b[1] \/ (a[1] = b[1] /\ a[2] < b[2])

\* math.isclose(a, b) with the default tolerances (rel_tol 1e-9, abs_tol 0):
\* two values of the integer scale are close only when equal.
IsClose(a, b) == a = b

Gate(name, params) == [name |-> name, params |-> params]

\* The gates one Euler family emits for a rotation class (simplify = True:
\* nothing for the identity): one gate of its first parameterised gate, or
\* two gates when the family has two parameterised gates.
FamilyGates(family, rot) ==
    LET pg == SelectSeq(ONE_QUBIT_EULER_BASIS_GATES[family],
                        LAMBDA g : g \notin FixedGates)
        a == CHOOSE k \in 1..(NumRot - 1) :
                 /\ (rot - k) % NumRot # 0
                 /\ \A j \in 1..(k - 1) : (rot - j) % NumRot = 0
    IN IF rot = 0 THEN <<>>
       ELSE IF Len(pg) = 1 \/ NumRot = 2 THEN <<Gate(pg[1], <<rot>>)>>
       ELSE <<Gate(pg[1], <<a>>), Gate(pg[2], <<(rot - a) % NumRot>>)>>

Names(gates) == [i \in 1..Len(gates) |-> gates[i].name]

\* unitary_to_gate_sequence: the candidate of lowest (error, length), the
\* first such in the order of the decomposers; None without decomposers.
\* The candidate carries the phase that makes it equal to the matrix.
unitary_to_gate_sequence(matrix, decomposers, qubit, error_map) ==
    IF decomposers = <<>> THEN None
    ELSE LET err(i) == compute_error(Names(FamilyGates(decomposers[i], matrix[1])),
                                     qubit, error_map)
             best == CHOOSE i \in 1..Len(decomposers) :
                        /\ \A j \in 1..Len(decomposers) : ~TupleLess(err(j), err(i))
                        /\ \A j \in 1..(i - 1) : TupleLess(err(i), err(j))
             gates == FamilyGates(decomposers[best], matrix[1])
         IN Some([gates |-> gates,
                  global_phase |-> (matrix[2] - SeqMatrix(gates)[2]) % NumPhase])

(* --------------------------- circuit graph ----------------------------- *)
\* The graph is [nodes, edges, free, next_obj, global_phase, op_names,
\* calibrations]: nodes maps the live node indices to the node objects
\* [node_id, obj, type, name, params, qargs] (obj is the identity of the
\* object, which outlives its removal from the graph), edges is a set of
\* <<source, destination, wire>>, free is the list of vacated indices, which
\* add_node reuses last-vacated first.
\* The names of the structured control-flow operations.
ControlFlowNames == {"if_else"}

AllNames ==
    FixedGates \cup UNION {Range(ONE_QUBIT_EULER_BASIS_GATES[n]) : n \in Range(EulerBasisNames)}

InNode(q) == 2 * q
OutNode(q) == 2 * q + 1

EmptyDag(calibrations) ==
    [nodes |-> [i \in 0..(2 * NumQubits - 1) |->
                  [node_id |-> i, obj |-> i,
                   type |-> IF i % 2 = 0 THEN "in" ELSE "out",
                   name |-> "", params |-> <<>>, qargs |-> <<i \div 2>>]],
     edges |-> {<<InNode(q), OutNode(q), q>> : q \in Qubits},
     free |-> <<>>,
     next_obj |-> 2 * NumQubits,
     global_phase |-> 0,
     op_names |-> [n \in AllNames \cup ControlFlowNames |-> 0],
     calibrations |-> calibrations]

\* The index add_node gives to the next node.
NextNodeId(dag) ==
    IF dag.free # <<>> THEN Head(dag.free)
    ELSE CHOOSE i \in 0..Cardinality(DOMAIN dag.nodes) : i \notin DOMAIN dag.nodes

\* DAGOpNode.from_instruction(op) followed by _multi_graph.add_node(node):
\* a new object, stored under the next index.
add_node(dag, name, params, qargs) ==
    [dag EXCEPT !.nodes = (NextNodeId(dag) :>
                              [node_id |-> NextNodeId(dag), obj |-> dag.next_obj,
                               type |-> "op", name |-> name, params |-> params,
                               qargs |-> qargs]) @@ dag.nodes,
                !.next_obj = @ + 1,
                !.free = IF dag.free # <<>> THEN Tail(dag.free) ELSE dag.free]

\* Is this node object in the graph?
InGraph(dag, node) ==
    /\ node.node_id \in DOMAIN dag.nodes
    /\ dag.nodes[node.node_id].obj = node.obj

increment_op(dag, name) == [dag EXCEPT !.op_names[name] = @ + 1]

decrement_op(dag, name) == [dag EXCEPT !.op_names[name] = @ - 1]

\* _multi_graph.insert_node_on_in_edges(node, ref_node): every edge into
\* ref_node now enters node, and node is linked to ref_node on that wire.
insert_node_on_in_edges(dag, node, ref_node) ==
    LET ins == {e \in dag.edges : e[2] = ref_node}
    IN [dag EXCEPT !.edges = (dag.edges \ ins)
                       \cup {<<e[1], node, e[3]>> : e \in ins}
                       \cup {<<node, ref_node, e[3]>> : e \in ins}]

\* remove_op_node(node): the predecessor and the successor of the node are
\* joined on every wire, the node and its edges go, its counter drops.
remove_op_node(dag, node) ==
    LET ins == {e \in dag.edges : e[2] = node.node_id}
        outs == {e \in dag.edges : e[1] = node.node_id}
        joined == {<<p[1][1], p[2][2], p[1][3]>> :
                      p \in {x \in ins \X outs : x[1][3] = x[2][3]}}
    IN decrement_op(
         [dag EXCEPT !.edges = (dag.edges \ (ins \cup outs)) \cup joined,
                     !.nodes = [i \in (DOMAIN dag.nodes) \ {node.node_id} |-> dag.nodes[i]],
                     !.free = <<node.node_id>> \o dag.free],
         node.name)

\* apply_operation_back(op, qargs): the new node goes right before the
\* output node of each of its wires.
apply_operation_back(dag, op, qargs) ==
    LET id == NextNodeId(dag)
        d1 == increment_op(add_node(dag, op.name, op.params, qargs), op.name)
        ins == {e \in d1.edges : \E i \in 1..Len(qargs) :
                   e[2] = OutNode(qargs[i]) /\ e[3] = qargs[i]}
    IN [d1 EXCEPT !.edges = (d1.edges \ ins)
                      \cup {<<e[1], id, e[3]>> : e \in ins}
                      \cup {<<id, e[2], e[3]>> : e \in ins}]

\* The graph of a circuit, an ordered list of [op, qargs].
RECURSIVE FromCircuit(_, _)
FromCircuit(circuit, calibrations) ==
    IF circuit = <<>> THEN EmptyDag(calibrations)
    ELSE LET last == circuit[Len(circuit)]
         IN apply_operation_back(
                FromCircuit(SubSeq(circuit, 1, Len(circuit) - 1), calibrations),
                last.op, last.qargs)

\* The nodes of wire q from its input node on, following the edges of the
\* wire for at most fuel steps; the walk stops where the wire has no
\* single successor.
RECURSIVE Walk(_, _, _, _)
Walk(dag, q, n, fuel) ==
    LET next == {e \in dag.edges : e[1] = n /\ e[3] = q}
    IN IF fuel = 0 \/ Cardinality(next) # 1 THEN <<n>>
       ELSE <<n>> \o Walk(dag, q, (CHOOSE e \in next : TRUE)[2], fuel - 1)

WirePath(dag, q) == Walk(dag, q, InNode(q), Cardinality(DOMAIN dag.nodes))

\* DAGCircuit.has_calibration_for(node)
has_calibration_for(dag, node) ==
    <<node.name, node.qargs, node.params>> \in dag.calibrations

\* The filter of collect_1q_runs: a gate on one qubit.
Is1qGate(dag, n) ==
    /\ n \in DOMAIN dag.nodes
    /\ dag.nodes[n].type = "op"
    /\ dag.nodes[n].name \notin ControlFlowNames
    /\ Len(dag.nodes[n].qargs) = 1

\* The maximal runs of one wire, in wire order.
RECURSIVE SplitRuns(_, _, _)
SplitRuns(dag, path, cur) ==
    IF path = <<>> THEN (IF cur = <<>> THEN <<>> ELSE <<cur>>)
    ELSE IF Is1qGate(dag, Head(path))
    THEN SplitRuns(dag, Tail(path), Append(cur, dag.nodes[Head(path)]))
    ELSE (IF cur = <<>> THEN <<>> ELSE <<cur>>) \o SplitRuns(dag, Tail(path), <<>>)

\* collect_1q_runs(): the runs of wire 0, then of wire 1, ...
RECURSIVE RunsFrom(_, _)
RunsFrom(dag, q) ==
    IF q >= NumQubits THEN <<>>
    ELSE SplitRuns(dag, WirePath(dag, q), <<>>) \o RunsFrom(dag, q + 1)

collect_1q_runs(dag) == RunsFrom(dag, 0)

\* The operations of a list of node objects.
NodeOps(run) == [i \in 1..Len(run) |-> Gate(run[i].name, run[i].params)]

(* ------------------------- substitution policy ------------------------- *)
\* _error(circuit, qubit), for a gate sequence or a list of operations.
error(self, ops, qubit) == compute_error(Names(ops), qubit, self.error_map)

\* Variant: the calibrations are not looked at.
uncalibrated_and_not_basis_p_IgnoreCals(dag, old_run, basis) ==
    IF ~IsNone(basis)
    THEN \E i \in 1..Len(old_run) : old_run[i].name \notin basis.val
    ELSE FALSE

\* Does the run hold a gate that is outside the basis and uncalibrated?
\* basis is None or Some(set of names).
uncalibrated_and_not_basis_p(dag, old_run, basis) ==
    LET has_cals_p == dag.calibrations # {}
    IN IF ~IsNone(basis)
       THEN \E i \in 1..Len(old_run) :
               /\ old_run[i].name \notin basis.val
               /\ (~has_cals_p \/ ~has_calibration_for(dag, old_run[i]))
       ELSE FALSE

\* Variant: every run counts as uncalibrated.
uncalibrated_p_Always(dag, old_run) == TRUE

\* Does the run hold an uncalibrated gate?
uncalibrated_p(dag, old_run) ==
    LET has_cals_p == dag.calibrations # {}
    IN ~has_cals_p \/ \E i \in 1..Len(old_run) : ~has_calibration_for(dag, old_run[i])

\* The errors _substitution_checks compares.
NewError(self, new_circ, qubit, new_error) ==
    IF IsNone(new_error) THEN error(self, new_circ.val.gates, qubit) ELSE new_error.val

OldError(self, old_run, qubit, old_error) ==
    IF IsNone(old_error) THEN error(self, NodeOps(old_run), qubit) ELSE old_error.val

\* Variant: the missing candidate is tested after the basis.
substitution_checks_NoneAfterBasis(self, dag, old_run, new_circ, basis, qubit, old_error, new_error) ==
    \/ uncalibrated_and_not_basis_p(dag, old_run, basis)
    \/ /\ ~IsNone(new_circ)
       /\ \/ (uncalibrated_p(dag, old_run)
              /\ TupleLess(NewError(self, new_circ, qubit, new_error),
                           OldError(self, old_run, qubit, old_error)))
          \/ (IsClose(NewError(self, new_circ, qubit, new_error)[1], 0)
              /\ ~IsClose(OldError(self, old_run, qubit, old_error)[1], 0))

\* Variant: an out-of-basis run is replaced only if the candidate is not worse.
substitution_checks_CompareWhenOutOfBasis(self, dag, old_run, new_circ, basis, qubit, old_error, new_error) ==
    /\ ~IsNone(new_circ)
    /\ \/ (uncalibrated_and_not_basis_p(dag, old_run, basis)
           /\ ~TupleLess(OldError(self, old_run, qubit, old_error),
                         NewError(self, new_circ, qubit, new_error)))
       \/ (uncalibrated_p(dag, old_run)
           /\ TupleLess(NewError(self, new_circ, qubit, new_error),
                        OldError(self, old_run, qubit, old_error)))
       \/ (IsClose(NewError(self, new_circ, qubit, new_error)[1], 0)
           /\ ~IsClose(OldError(self, old_run, qubit, old_error)[1], 0))

\* Variant: <= in place of <.
substitution_checks_NonStrict(self, dag, old_run, new_circ, basis, qubit, old_error, new_error) ==
    /\ ~IsNone(new_circ)
    /\ \/ uncalibrated_and_not_basis_p(dag, old_run, basis)
       \/ (uncalibrated_p(dag, old_run)
           /\ ~TupleLess(OldError(self, old_run, qubit, old_error),
                         NewError(self, new_circ, qubit, new_error)))
       \/ (IsClose(NewError(self, new_circ, qubit, new_error)[1], 0)
           /\ ~IsClose(OldError(self, old_run, qubit, old_error)[1], 0))

\* Variant: being out of basis forces nothing.
substitution_checks_NoForce(self, dag, old_run, new_circ, basis, qubit, old_error, new_error) ==
    /\ ~IsNone(new_circ)
    /\ \/ (uncalibrated_p(dag, old_run)
           /\ TupleLess(NewError(self, new_circ, qubit, new_error),
                        OldError(self, old_run, qubit, old_error)))
       \/ (IsClose(NewError(self, new_circ, qubit, new_error)[1], 0)
           /\ ~IsClose(OldError(self, old_run, qubit, old_error)[1], 0))

\* Variant: the comparison is the wrong way round.
substitution_checks_Reversed(self, dag, old_run, new_circ, basis, qubit, old_error, new_error) ==
    /\ ~IsNone(new_circ)
    /\ \/ uncalibrated_and_not_basis_p(dag, old_run, basis)
       \/ (uncalibrated_p(dag, old_run)
           /\ TupleLess(OldError(self, old_run, qubit, old_error),
                        NewError(self, new_circ, qubit, new_error)))
       \/ (IsClose(NewError(self, new_circ, qubit, new_error)[1], 0)
           /\ ~IsClose(OldError(self, old_run, qubit, old_error)[1], 0))

\* _substitution_checks(dag, old_run, new_circ, basis, qubit, old_error,
\* new_error): new_circ, old_error and new_error are None or Some(value).
substitution_checks(self, dag, old_run, new_circ, basis, qubit, old_error, new_error) ==
    IF IsNone(new_circ) THEN FALSE
    ELSE IF uncalibrated_and_not_basis_p(dag, old_run, basis)
    THEN \* new_error = old_error = 0.0, and `or` stops at its first operand
         TRUE
    ELSE LET new_e == NewError(self, new_circ, qubit, new_error)
             old_e == OldError(self, old_run, qubit, old_error)
         IN \/ (uncalibrated_p(dag, old_run) /\ TupleLess(new_e, old_e))
            \/ (IsClose(new_e[1], 0) /\ ~IsClose(old_e[1], 0))

(* ----------------------------- rewriting ------------------------------- *)
\* Variant: each node is inserted on the in-edges of the node inserted
\* before it.
RECURSIVE InsertSequence_BeforePrevious(_, _, _, _)
InsertSequence_BeforePrevious(dag, gates, qargs, first_node_id) ==
    IF gates = <<>> THEN dag
    ELSE LET id == NextNodeId(dag)
             d1 == add_node(dag, Head(gates).name, Head(gates).params, qargs)
             d2 == increment_op(d1, Head(gates).name)
             d3 == insert_node_on_in_edges(d2, id, first_node_id)
         IN InsertSequence_BeforePrevious(d3, Tail(gates), qargs, id)

\* Variant: the counter of the inserted operation is not incremented.
RECURSIVE InsertSequence_NoIncrement(_, _, _, _)
InsertSequence_NoIncrement(dag, gates, qargs, first_node_id) ==
    IF gates = <<>> THEN dag
    ELSE LET id == NextNodeId(dag)
             d1 == add_node(dag, Head(gates).name, Head(gates).params, qargs)
             d3 == insert_node_on_in_edges(d1, id, first_node_id)
         IN InsertSequence_NoIncrement(d3, Tail(gates), qargs, first_node_id)

\* Lines 243-248: one new node per gate of the sequence, each inserted on
\* the in-edges of the first node of the run.
RECURSIVE InsertSequence(_, _, _, _)
InsertSequence(dag, gates, qargs, first_node_id) ==
    IF gates = <<>> THEN dag
    ELSE LET id == NextNodeId(dag)
             d1 == add_node(dag, Head(gates).name, Head(gates).params, qargs)
             d2 == increment_op(d1, Head(gates).name)
             d3 == insert_node_on_in_edges(d2, id, first_node_id)
         IN InsertSequence(d3, Tail(gates), qargs, first_node_id)

\* Variant: the last node of the run is not deleted.
RECURSIVE RemoveRun_ButLast(_, _)
RemoveRun_ButLast(dag, run) ==
    IF Len(run) <= 1 THEN dag
    ELSE RemoveRun_ButLast(remove_op_node(dag, Head(run)), Tail(run))

\* Lines 251-252: delete the nodes of the run.
RECURSIVE RemoveRun(_, _)
RemoveRun(dag, run) ==
    IF run = <<>> THEN dag
    ELSE RemoveRun(remove_op_node(dag, Head(run)), Tail(run))

\* Variant: the nodes of the run are not deleted.
Substitute_NoRemove(dag, run, seq) ==
    LET d1 == InsertSequence(dag, seq.gates, run[1].qargs, run[1].node_id)
    IN [d1 EXCEPT !.global_phase = (@ + seq.global_phase) % NumPhase]

\* Variant: the nodes of the run are deleted before the new ones are inserted.
Substitute_RemoveFirst(dag, run, seq) ==
    LET d1 == RemoveRun(dag, run)
        d2 == [d1 EXCEPT !.global_phase = (@ + seq.global_phase) % NumPhase]
    IN InsertSequence(d2, seq.gates, run[1].qargs, run[1].node_id)

\* Variant: the phase of the sequence is added once per inserted gate.
Substitute_PhasePerGate(dag, run, seq) ==
    LET d1 == InsertSequence(dag, seq.gates, run[1].qargs, run[1].node_id)
        d2 == [d1 EXCEPT !.global_phase =
                   (@ + Len(seq.gates) * seq.global_phase) % NumPhase]
    IN RemoveRun(d2, run)

\* Lines 241-252: the substitution of a run by the accepted sequence.
Substitute(dag, run, seq) ==
    LET d1 == InsertSequence(dag, seq.gates, run[1].qargs, run[1].node_id)
        d2 == [d1 EXCEPT !.global_phase = (@ + seq.global_phase) % NumPhase]
    IN RemoveRun(d2, run)

(* ------------------------------ the pass ------------------------------- *)
VARIABLES self, dag, pc, runs, qubits, bases, best_sequences, index, outs,
          passes, dag_in, call, result, flow, rfm, backend

vars == <<self, dag, pc, runs, qubits, bases, best_sequences, index, outs,
          passes, dag_in, call, result, flow, rfm, backend>>

\* optimize_1q_gates_decomposition(runs, qubits, bases, simplify, error_map):
\* per run None, or Some of (old_error, new_error, sequence).
optimize_1q_gates_decomposition(rs, qs, bs, error_map) ==
    [i \in 1..Len(rs) |->
        LET seq == unitary_to_gate_sequence(SeqMatrix(NodeOps(rs[i])), bs[i],
                                            qs[i], error_map)
        IN IF IsNone(seq) THEN None
           ELSE Some([old_error |-> compute_error(Names(NodeOps(rs[i])), qs[i], error_map),
                      new_error |-> compute_error(Names(seq.val.gates), qs[i], error_map),
                      seq |-> seq.val])]

\* Lines 226-229: the basis the policy uses for a qubit, None or Some(set).
PolicyBasis(s, qubit) ==
    IF IsNone(s.target)
    THEN (IF IsNone(s.basis_gates) THEN None ELSE Some(Range(s.basis_gates.val)))
    ELSE operation_names_for_qargs(s.target.val, <<qubit>>)

\* The decision of run() for the run at an index (lines 230-240).
Decision(s, d, rs, qs, best, i) ==
    /\ ~IsNone(best[i])
    /\ substitution_checks(s, d, rs[i], Some(best[i].val.seq), PolicyBasis(s, qs[i]),
                           qs[i], Some(best[i].val.old_error), Some(best[i].val.new_error))

(* ----------------------------- inputs ---------------------------------- *)
Instructions ==
    {[op |-> Gate(n, IF n = "rz" THEN <<1>> ELSE <<>>), qargs |-> <<q>>] :
        n \in {"h", "x", "rz"}, q \in Qubits}
    \cup {[op |-> Gate("cx", <<>>), qargs |-> <<0, 1>>]}

Circuits == UNION {[1..n -> Instructions] : n \in 0..MaxOps}

CalibrationSets ==
    {{}, {<<"h", <<0>>, <<>>>>}, {<<"h", <<0>>, <<>>>>, <<"x", <<0>>, <<>>>>}}

\* A device whose even qubits offer rz, sx and x and whose odd qubits offer
\* rz and x, with an error for every gate but sx on the odd qubits.
TargetA ==
    [num_qubits |-> Some(NumQubits),
     gate_map |->
        {Entry("rz", Some(<<q>>), Some(IF q % 2 = 0 THEN 1 ELSE 0)) : q \in Qubits}
        \cup {Entry("x", Some(<<q>>), Some(IF q % 2 = 0 THEN 2 ELSE 1)) : q \in Qubits}
        \cup {Entry("sx", Some(<<q>>), IF q % 2 = 0 THEN Some(1) ELSE None) : q \in Qubits}
        \cup {Entry("cx", Some(<<0, 1>>), Some(3))}]

\* A device with rz and x (x the cheaper gate) on even and u3 on odd qubits.
TargetB ==
    [num_qubits |-> Some(NumQubits),
     gate_map |->
        {Entry(IF q % 2 = 0 THEN "rz" ELSE "u3", Some(<<q>>), Some(1)) : q \in Qubits}
        \cup {Entry("x", Some(<<q>>), IF q % 2 = 0 THEN Some(0) ELSE None) : q \in Qubits}
        \cup {Entry("sx", Some(<<q>>), Some(1)) : q \in {x \in Qubits : x % 2 = 0}}
        \cup {Entry("cx", Some(<<0, 1>>), None)}]

\* A simulator target: no qubit count, every operation defined globally.
TargetSim ==
    [num_qubits |-> None,
     gate_map |-> {Entry(g, None, None) : g \in {"h", "x", "cx"}}]

Configurations ==
    {<<b, None>> : b \in {None, Some(<<>>), Some(<<"rz", "sx", "x">>), Some(<<"u3">>),
                          Some(<<"rz", "rx">>), Some(<<"h", "cx">>)}}
    \cup {<<None, Some(t)>> : t \in {TargetA, TargetB, TargetSim}}
    \cup {<<Some(<<"u3", "u2", "u1">>), Some(TargetA)>>,
          <<Some(<<"rz", "rx">>), Some(TargetSim)>>}

(* ----------------------------- actions --------------------------------- *)
Init ==
    /\ \E cfg \in Configurations : self = NewPass(cfg[1], cfg[2])
    /\ \E c \in Circuits, cals \in CalibrationSets : dag = FromCircuit(c, cals)
    /\ pc = "call"
    /\ runs = <<>>
    /\ qubits = <<>>
    /\ bases = <<>>
    /\ best_sequences = <<>>
    /\ index = 1
    /\ outs = <<>>
    /\ passes = <<self, self>>
    /\ dag_in = dag
    /\ call = None
    /\ result = None
    /\ flow = None
    /\ rfm = None
    /\ backend = None

\* Variant: the position in the list of runs is carried over from the
\* previous invocation.
Collect_StaleIndex ==
    /\ pc \in {"call", "returned"}
    /\ Len(outs) < 2
    /\ LET rs == collect_1q_runs(dag)
           qs == [i \in 1..Len(rs) |-> rs[i][1].qargs[1]]
           bs == [i \in 1..Len(rs) |-> get_decomposer(self, qs[i])]
       IN /\ runs' = rs
          /\ qubits' = qs
          /\ bases' = bs
          /\ best_sequences' = optimize_1q_gates_decomposition(rs, qs, bs, self.error_map)
    /\ pc' = "loop"
    /\ UNCHANGED <<self, dag, index, outs, passes, dag_in, call, result, flow, rfm, backend>>

\* run(dag), lines 212-222: collect the runs and query the oracle.  The
\* pass is applied twice in succession.
Collect ==
    /\ pc \in {"call", "returned"}
    /\ Len(outs) < 2
    /\ LET rs == collect_1q_runs(dag)
           qs == [i \in 1..Len(rs) |-> rs[i][1].qargs[1]]
           bs == [i \in 1..Len(rs) |-> get_decomposer(self, qs[i])]
       IN /\ runs' = rs
          /\ qubits' = qs
          /\ bases' = bs
          /\ best_sequences' = optimize_1q_gates_decomposition(rs, qs, bs, self.error_map)
    /\ index' = 1
    /\ pc' = "loop"
    /\ UNCHANGED <<self, dag, outs, passes, dag_in, call, result, flow, rfm, backend>>

\* Lines 223-230: the oracle gave no candidate for the run.
KeepNoCandidate ==
    /\ pc = "loop"
    /\ index <= Len(runs)
    /\ IsNone(best_sequences[index])
    /\ index' = index + 1
    /\ UNCHANGED <<self, dag, pc, runs, qubits, bases, best_sequences, outs, passes, dag_in, call, result, flow, rfm, backend>>

\* Lines 230-240: _substitution_checks answers False.
KeepChecked ==
    /\ pc = "loop"
    /\ index <= Len(runs)
    /\ ~IsNone(best_sequences[index])
    /\ ~Decision(self, dag, runs, qubits, best_sequences, index)
    /\ index' = index + 1
    /\ UNCHANGED <<self, dag, pc, runs, qubits, bases, best_sequences, outs, passes, dag_in, call, result, flow, rfm, backend>>

\* Lines 230-252: _substitution_checks answers True, the run is rewritten.
Replace ==
    /\ pc = "loop"
    /\ index <= Len(runs)
    /\ Decision(self, dag, runs, qubits, best_sequences, index)
    /\ dag' = Substitute(dag, runs[index], best_sequences[index].val.seq)
    /\ index' = index + 1
    /\ UNCHANGED <<self, pc, runs, qubits, bases, best_sequences, outs, passes, dag_in, call, result, flow, rfm, backend>>

\* Line 254: return dag.
Return ==
    /\ pc = "loop"
    /\ index > Len(runs)
    /\ pc' = "returned"
    /\ outs' = Append(outs, dag)
    /\ UNCHANGED <<self, dag, runs, qubits, bases, best_sequences, index, passes, dag_in, call, result, flow, rfm, backend>>

Next == Collect \/ KeepNoCandidate \/ KeepChecked \/ Replace \/ Return

Spec == Init /\ [][Next]_vars

(* ------------- two invocations on copies of the same graph ------------ *)
\* A simulator target in whose operations an Euler family is expressible.
TargetSimZ ==
    [num_qubits |-> None,
     gate_map |-> {Entry(g, None, None) : g \in {"rz", "sx", "x", "cx"}}]

\* Pairs of (basis, target) arguments: the same arguments twice, or the
\* same target with two basis arguments.
PassPairs ==
    {<<c, c>> : c \in {<<Some(<<"rz", "sx", "x">>), None>>, <<None, Some(TargetA)>>,
                       <<None, Some(TargetB)>>, <<None, Some(TargetSimZ)>>}}
    \cup {<<<<None, Some(TargetA)>>, <<Some(<<"u3", "u2", "u1">>), Some(TargetA)>>>>,
          <<<<None, Some(TargetSimZ)>>, <<Some(<<"rz", "rx">>), Some(TargetSimZ)>>>>,
          <<<<Some(<<"h", "cx">>), Some(TargetSim)>>, <<Some(<<"rz", "rx">>), Some(TargetSim)>>>>}

InitPair ==
    /\ \E pr \in PassPairs :
          passes = <<NewPass(pr[1][1], pr[1][2]), NewPass(pr[2][1], pr[2][2])>>
    /\ self = passes[1]
    /\ \E c \in Circuits, cals \in CalibrationSets : dag = FromCircuit(c, cals)
    /\ dag_in = dag
    /\ pc = "call"
    /\ runs = <<>>
    /\ qubits = <<>>
    /\ bases = <<>>
    /\ best_sequences = <<>>
    /\ index = 1
    /\ outs = <<>>
    /\ call = None
    /\ result = None
    /\ flow = None
    /\ rfm = None
    /\ backend = None

\* run(dag) is called on a graph it has not seen.
CollectFresh == pc = "call" /\ Collect

\* The caller hands a copy of the graph it gave to the first pass to the
\* second pass of the pair.
CallOther ==
    /\ pc = "returned"
    /\ Len(outs) = 1
    /\ dag' = dag_in
    /\ self' = passes[2]
    /\ pc' = "call"
    /\ UNCHANGED <<runs, qubits, bases, best_sequences, index, outs, passes, dag_in,
                   call, result, flow, rfm, backend>>

NextPair == CollectFresh \/ KeepNoCandidate \/ KeepChecked \/ Replace \/ Return \/ CallOther

SpecPair == InitPair /\ [][NextPair]_vars

(* ---------------------- control-flow recursion ------------------------- *)
\* The variables of run() on one graph, idle in the specifications that
\* follow.
passVars == <<self, dag, runs, qubits, bases, best_sequences, index, outs, passes, dag_in>>

\* The loop of run() (lines 223-252) from index i on, as one function.
RECURSIVE RunLoop(_, _, _, _, _, _)
RunLoop(s, d, rs, qs, best, i) ==
    IF i > Len(rs) THEN d
    ELSE RunLoop(s,
                 IF Decision(s, d, rs, qs, best, i)
                 THEN Substitute(d, rs[i], best[i].val.seq) ELSE d,
                 rs, qs, best, i + 1)

\* The qubit index run() computes for a run (line 216): the index of the
\* bit in the graph run() was given.
RunQubits(rs) == [i \in 1..Len(rs) |-> rs[i][1].qargs[1]]

\* run() on one graph without the recursion (lines 212-254), as one function.
RunMethod(s, d) ==
    LET rs == collect_1q_runs(d)
        qs == RunQubits(rs)
        bs == [i \in 1..Len(rs) |-> get_decomposer(s, qs[i])]
        best == optimize_1q_gates_decomposition(rs, qs, bs, s.error_map)
    IN RunLoop(s, d, rs, qs, best, 1)

\* Line 125 and line 229: Target.operation_names_for_qargs raises KeyError
\* for a qubit the target does not have.
RaisesKeyError(s, d) ==
    /\ ~IsNone(s.target)
    /\ ~IsNone(s.target.val.num_qubits)
    /\ \E q \in Range(RunQubits(collect_1q_runs(d))) :
          IsNone(operation_names_for_qargs(s.target.val, <<q>>))

\* A block is a circuit: [instrs, global_phase], its qubits numbered from 0.
Block(instrs) == [instrs |-> instrs, global_phase |-> 0]

\* circuit_to_dag(block)
circuit_to_dag(block) ==
    [FromCircuit(block.instrs, {}) EXCEPT !.global_phase = block.global_phase]

\* The operation nodes of the graph in a topological order.
RECURSIVE TopologicalOps(_, _)
TopologicalOps(d, emitted) ==
    LET ready == {n \in DOMAIN d.nodes :
                    /\ d.nodes[n].type = "op"
                    /\ n \notin emitted
                    /\ \A e \in d.edges :
                         e[2] = n => (d.nodes[e[1]].type = "in" \/ e[1] \in emitted)}
    IN IF ready = {} THEN <<>>
       ELSE LET n == CHOOSE x \in ready : \A y \in ready : x <= y
            IN <<[op |-> Gate(d.nodes[n].name, d.nodes[n].params),
                  qargs |-> d.nodes[n].qargs]>>
               \o TopologicalOps(d, emitted \cup {n})

\* dag_to_circuit(dag)
dag_to_circuit(d) == [instrs |-> TopologicalOps(d, {}), global_phase |-> d.global_phase]

\* The elements of a set of integer tuples in increasing order.
RECURSIVE Sorted(_)
Sorted(S) ==
    IF S = {} THEN <<>>
    ELSE LET m == CHOOSE x \in S : \A y \in S :
                     x[1] < y[1] \/ (x[1] = y[1] /\ x[2] <= y[2])
         IN <<m>> \o Sorted(S \ {m})

\* The blocks of the control-flow nodes of a graph, as (node, block)
\* pairs in the order the recursion visits them.
BlocksOf(d) ==
    Sorted({<<n, k>> : n \in {x \in DOMAIN d.nodes : d.nodes[x].name \in ControlFlowNames},
                      k \in 1..MaxBlocks}
             \cap {p \in (DOMAIN d.nodes) \X (1..MaxBlocks) :
                     p[2] <= Len(d.nodes[p[1]].params)})

\* The frame of the recursion for one graph.
Frame(d, n) == [dag |-> d, num_qubits |-> n, todo |-> BlocksOf(d), done |-> FALSE,
                had_runs |-> FALSE]

\* Variant: the global phase a block gained goes to the enclosing graph.
substitute_block_PhaseToParent(parent, n, k, child) ==
    [parent EXCEPT !.nodes[n].params[k] =
                       [instrs |-> TopologicalOps(child, {}),
                        global_phase |-> parent.nodes[n].params[k].global_phase],
                   !.global_phase =
                       (@ + child.global_phase + NumPhase
                          - parent.nodes[n].params[k].global_phase) % NumPhase]

\* dag.substitute_node(node, op.replace_blocks(...)), for one block: the
\* block k of the control-flow node n becomes the circuit of the graph.
substitute_block(parent, n, k, child) ==
    [parent EXCEPT !.nodes[n].params[k] = dag_to_circuit(child)]

\* The blocks and instructions of the programs.
BlockH == Block(<<[op |-> Gate("h", <<>>), qargs |-> <<0>>]>>)
BlockX == Block(<<[op |-> Gate("x", <<>>), qargs |-> <<0>>]>>)
BlockEmpty == Block(<<>>)
IfElse(qargs, blocks) == [op |-> Gate("if_else", blocks), qargs |-> qargs]
BlockNested ==
    Block(<<[op |-> Gate("h", <<>>), qargs |-> <<0>>], IfElse(<<0>>, <<BlockH>>)>>)
BlockTwo ==
    Block(<<[op |-> Gate("cx", <<>>), qargs |-> <<0, 1>>],
            [op |-> Gate("h", <<>>), qargs |-> <<1>>]>>)

FlowInstructions ==
    {[op |-> Gate("h", <<>>), qargs |-> <<0>>], [op |-> Gate("x", <<>>), qargs |-> <<1>>]}
    \cup {IfElse(<<q>>, bl) :
            q \in Qubits,
            bl \in {<<BlockH>>, <<BlockH, BlockX>>, <<BlockNested>>, <<BlockEmpty>>}}
    \cup {IfElse(<<0, 1>>, <<BlockTwo>>), IfElse(<<1, 0>>, <<BlockTwo>>)}

FlowCircuits == UNION {[1..n -> FlowInstructions] : n \in 1..MaxFlowOps}

\* A device of one qubit.
TargetOne ==
    [num_qubits |-> Some(1),
     gate_map |-> {Entry(g, Some(<<0>>), Some(1)) : g \in {"rz", "sx", "x"}}]

FlowConfigurations ==
    {<<Some(<<"rz", "sx", "x">>), None>>, <<None, Some(TargetB)>>, <<None, Some(TargetOne)>>}

InitFlow ==
    /\ \E cfg \in FlowConfigurations : self = NewPass(cfg[1], cfg[2])
    /\ \E c \in FlowCircuits :
          flow = [stack |-> <<Frame(FromCircuit(c, {}), NumQubits)>>, status |-> "running"]
    /\ pc = "flow"
    /\ dag = EmptyDag({})
    /\ runs = <<>>
    /\ qubits = <<>>
    /\ bases = <<>>
    /\ best_sequences = <<>>
    /\ index = 1
    /\ outs = <<>>
    /\ passes = <<self, self>>
    /\ dag_in = dag
    /\ call = None
    /\ result = None
    /\ rfm = None
    /\ backend = None

\* The frame the recursion is in.
Top == flow.stack[Len(flow.stack)]

\* trivial_recurse: the wrapper is called on the next block of a
\* control-flow node of the graph, converted to a graph of its own.
Descend ==
    /\ flow.status = "running"
    /\ Top.todo # <<>>
    /\ LET n == Head(Top.todo)[1]
           k == Head(Top.todo)[2]
       IN flow' = [flow EXCEPT !.stack =
                      Append(@, Frame(circuit_to_dag(Top.dag.nodes[n].params[k]),
                                      Len(Top.dag.nodes[n].qargs)))]
    /\ UNCHANGED <<passVars, pc, call, result, rfm, backend>>

\* trivial_recurse: every block of the graph is done, run() itself works
\* on the graph (lines 212-254).
Method ==
    /\ flow.status = "running"
    /\ Top.todo = <<>>
    /\ ~Top.done
    /\ ~RaisesKeyError(self, Top.dag)
    /\ flow' = [flow EXCEPT !.stack[Len(flow.stack)] =
                   [@ EXCEPT !.dag = RunMethod(self, Top.dag),
                             !.done = TRUE,
                             !.had_runs = collect_1q_runs(Top.dag) # <<>>]]
    /\ UNCHANGED <<passVars, pc, call, result, rfm, backend>>

\* run() on the graph ends in the KeyError of the target.
MethodRaises ==
    /\ flow.status = "running"
    /\ Top.todo = <<>>
    /\ ~Top.done
    /\ RaisesKeyError(self, Top.dag)
    /\ flow' = [flow EXCEPT !.status = "error"]
    /\ UNCHANGED <<passVars, pc, call, result, rfm, backend>>

\* trivial_recurse: the wrapper returns from a block, whose graph becomes
\* the block of the control-flow node again.
Ascend ==
    /\ flow.status = "running"
    /\ Top.done
    /\ Len(flow.stack) > 1
    /\ LET up == Len(flow.stack) - 1
           parent == flow.stack[up]
           n == Head(parent.todo)[1]
           k == Head(parent.todo)[2]
       IN flow' = [flow EXCEPT !.stack =
                      [SubSeq(@, 1, up) EXCEPT ![up] =
                          [parent EXCEPT !.dag = substitute_block(parent.dag, n, k, Top.dag),
                                         !.todo = Tail(parent.todo)]]]
    /\ UNCHANGED <<passVars, pc, call, result, rfm, backend>>

\* The outermost call returns the graph.
ReturnFlow ==
    /\ flow.status = "running"
    /\ Top.done
    /\ Len(flow.stack) = 1
    /\ flow' = [flow EXCEPT !.status = "returned"]
    /\ UNCHANGED <<passVars, pc, call, result, rfm, backend>>

NextFlow == Descend \/ Method \/ MethodRaises \/ Ascend \/ ReturnFlow

SpecFlow == InitFlow /\ [][NextFlow]_vars

\* The sequence has no element twice.
NoDuplicates(l) == \A i \in 1..Len(l), j \in 1..Len(l) : l[i] = l[j] => i = j

(* --------------------- RemoveFinalMeasurements ------------------------- *)
\* The graph of this pass is kept as the list of its operation nodes in a
\* topological order, with the classical bits and registers of the
\* circuit: the successor of a node on a wire is the next node of the list
\* on that wire, or the output node of the wire.  A node is
\* [id, name, qargs, cargs, cond]: cond are the bits of its condition.
RfmQubits == 0..(NumRfmQubits - 1)
RfmClbits == 0..NumRfmQubits

Op(name, qargs, cargs, cond) == [name |-> name, qargs |-> qargs, cargs |-> cargs, cond |-> cond]

\* A reference to a node of the graph: an operation node by its id, the
\* input or the output node of a qubit.
OpRef(id) == [kind |-> "op", id |-> id]
InRef(q) == [kind |-> "in", id |-> q]
OutRef(q) == [kind |-> "out", id |-> q]

\* Position of the operation node in the list (0 when it is not there).
PosOfId(d, id) ==
    IF \E i \in 1..Len(d.ops) : d.ops[i].id = id
    THEN CHOOSE i \in 1..Len(d.ops) : d.ops[i].id = id ELSE 0

NodeOf(d, ref) == d.ops[PosOfId(d, ref.id)]

\* The node after position i on qubit q.
NextOnQubit(d, i, q) ==
    LET later == {j \in (i + 1)..Len(d.ops) : q \in Range(d.ops[j].qargs)}
    IN IF later = {} THEN OutRef(q)
       ELSE OpRef(d.ops[CHOOSE j \in later : \A l \in later : j <= l].id)

\* The node before position i on qubit q.
PrevOnQubit(d, i, q) ==
    LET earlier == {j \in 1..(i - 1) : q \in Range(d.ops[j].qargs)}
    IN IF earlier = {} THEN InRef(q)
       ELSE OpRef(d.ops[CHOOSE j \in earlier : \A l \in earlier : j >= l].id)

\* The list without the repetitions of its elements.
RECURSIVE Distinct(_)
Distinct(l) ==
    IF l = <<>> THEN <<>>
    ELSE LET rest == Distinct(SubSeq(l, 1, Len(l) - 1))
         IN IF l[Len(l)] \in Range(rest) THEN rest ELSE Append(rest, l[Len(l)])

\* dag.quantum_successors(node): the successors over qubit wires, each once.
quantum_successors(d, ref) ==
    LET i == PosOfId(d, ref.id)
    IN {NextOnQubit(d, i, q) : q \in Range(d.ops[i].qargs)}

\* dag.quantum_predecessors(node): the predecessors over qubit wires, each
\* once.
quantum_predecessors(d, ref) ==
    LET i == PosOfId(d, ref.id)
        qs == d.ops[i].qargs
    IN Distinct([k \in 1..Len(qs) |-> PrevOnQubit(d, i, qs[k])])

\* next(dag.predecessors(dag.output_map[qubit])) for every qubit.
final_qubit_inputs(d) ==
    [k \in 1..NumRfmQubits |-> PrevOnQubit(d, Len(d.ops) + 1, k - 1)]

\* dag.idle_wires(), the classical ones: the bits no node reads or writes.
idle_clbits(d) ==
    {c \in d.clbits : \A i \in 1..Len(d.ops) :
        c \notin Range(d.ops[i].cargs) /\ c \notin d.ops[i].cond}

\* Variant: only the node of the smallest id is removed.
RemoveOps_SmallestOnly(d, ids) ==
    LET Stays(n) == n.id \notin ids \/ \E i \in ids : i < n.id
    IN [d EXCEPT !.ops = SelectSeq(d.ops, Stays)]

\* dag.remove_op_node for every node of the list of ids.
RemoveOps(d, ids) ==
    LET Stays(n) == n.id \notin ids IN [d EXCEPT !.ops = SelectSeq(d.ops, Stays)]

\* Variant: a register goes as soon as one of its bits became unused.
RemoveFinal_AnyTouchedRegister(d, final_ops) ==
    IF final_ops = <<>> THEN d
    ELSE LET ids == {final_ops[k].id : k \in 1..Len(final_ops)}
             written == UNION {Range(NodeOf(d, final_ops[k]).cargs) : k \in 1..Len(final_ops)}
             d1 == RemoveOps(d, ids)
             idle_wires == idle_clbits(d1)
             clbits_with_final_measures == written \cap idle_wires
             cregs_to_remove == {r \in d1.cregs :
                                   Range(r.bits) \cap clbits_with_final_measures # {}}
             cregs == d1.cregs \ cregs_to_remove
             clbits_in_regs == UNION {Range(r.bits) : r \in cregs}
             clbits_to_remove == clbits_with_final_measures \ clbits_in_regs
         IN [d1 EXCEPT !.cregs = cregs, !.clbits = @ \ clbits_to_remove]

\* run(), lines 77-108, given the list _calc_final_ops returned.
RemoveFinal(d, final_ops) ==
    IF final_ops = <<>> THEN d
    ELSE LET ids == {final_ops[k].id : k \in 1..Len(final_ops)}
             written == UNION {Range(NodeOf(d, final_ops[k]).cargs) : k \in 1..Len(final_ops)}
             d1 == RemoveOps(d, ids)
             idle_wires == idle_clbits(d1)
             clbits_with_final_measures == written \cap idle_wires
             cregs_to_remove == {r \in d1.cregs :
                                   /\ Range(r.bits) \cap clbits_with_final_measures # {}
                                   /\ Range(r.bits) \subseteq idle_wires}
             cregs == d1.cregs \ cregs_to_remove
             clbits_in_regs == UNION {Range(r.bits) : r \in cregs}
             clbits_to_remove == clbits_with_final_measures \ clbits_in_regs
         IN [d1 EXCEPT !.cregs = cregs, !.clbits = @ \ clbits_to_remove]

\* The instructions of the input circuits: measures into the bits 0 and 1,
\* barriers, a gate on each qubit and a gate conditioned on bit 0.
RfmInstructions ==
    {Op("measure", <<q>>, <<c>>, {}) : q \in RfmQubits, c \in {0, 1}}
    \cup {Op("barrier", <<0>>, <<>>, {}),
          Op("barrier", [k \in 1..NumRfmQubits |-> k - 1], <<>>, {})}
    \cup {Op("h", <<q>>, <<>>, {}) : q \in RfmQubits}
    \cup {Op("x", <<NumRfmQubits - 1>>, <<>>, {0})}

\* The classical registers of the input circuits; the last bit is written
\* by no instruction.
RfmRegisterSets ==
    {{},
     {[name |-> "a", bits |-> <<0, 1>>]},
     {[name |-> "a", bits |-> <<0, NumRfmQubits>>], [name |-> "b", bits |-> <<1>>]},
     {[name |-> "a", bits |-> <<0, 1>>], [name |-> "b", bits |-> <<1, NumRfmQubits>>]},
     {[name |-> "a", bits |-> <<NumRfmQubits>>]}}

RfmGraph(instrs, cregs) ==
    [ops |-> [i \in 1..Len(instrs) |->
                [id |-> i, name |-> instrs[i].name, qargs |-> instrs[i].qargs,
                 cargs |-> instrs[i].cargs, cond |-> instrs[i].cond]],
     clbits |-> RfmClbits,
     cregs |-> cregs]

InitRfm ==
    /\ \E instrs \in UNION {[1..n -> RfmInstructions] : n \in 0..MaxRfmOps},
          cregs \in RfmRegisterSets :
          rfm = [dag |-> RfmGraph(instrs, cregs), input |-> RfmGraph(instrs, cregs),
                 pc |-> "call", to_visit |-> <<>>, barrier_encounters_remaining |-> <<>>,
                 final_ops |-> <<>>, times |-> 0]
    /\ pc = "rfm"
    /\ self = NewPass(None, None)
    /\ dag = EmptyDag({})
    /\ runs = <<>>
    /\ qubits = <<>>
    /\ bases = <<>>
    /\ best_sequences = <<>>
    /\ index = 1
    /\ outs = <<>>
    /\ passes = <<self, self>>
    /\ dag_in = dag
    /\ call = None
    /\ result = None
    /\ flow = None
    /\ backend = None

\* The encounters a barrier still needs: a function on the ids of the
\* barriers seen so far, kept as a set of pairs.
Remaining(id) == (CHOOSE p \in Range(rfm.barrier_encounters_remaining) : p[1] = id)[2]
Seen(id) == \E p \in Range(rfm.barrier_encounters_remaining) : p[1] = id

\* The node the loop pops, and the list it leaves.
Popped == rfm.to_visit[Len(rfm.to_visit)]
Rest == SubSeq(rfm.to_visit, 1, Len(rfm.to_visit) - 1)

\* run() is called (line 76), _calc_final_ops starts (lines 38-43).
CalcStart ==
    /\ rfm.pc \in {"call", "returned"}
    /\ rfm.times < 2
    /\ rfm' = [rfm EXCEPT !.pc = "visit",
                          !.input = rfm.dag,
                          !.to_visit = final_qubit_inputs(rfm.dag),
                          !.barrier_encounters_remaining = <<>>,
                          !.final_ops = <<>>]
    /\ UNCHANGED <<passVars, pc, call, result, flow, backend>>

\* Lines 46-48: the popped node is an input node.
VisitNonOp ==
    /\ rfm.pc = "visit"
    /\ rfm.to_visit # <<>>
    /\ Popped.kind # "op"
    /\ rfm' = [rfm EXCEPT !.to_visit = Rest]
    /\ UNCHANGED <<passVars, pc, call, result, flow, backend>>

\* Variant: every barrier counts one successor.
CountOf_One(ref) == 1

\* The count of line 54 for a barrier met for the first time, the stored
\* count otherwise.
CountOf(ref) ==
    IF Seen(ref.id) THEN Remaining(ref.id)
    ELSE Cardinality(quantum_successors(rfm.dag, ref))

\* Lines 49-59: the popped node is a barrier not yet met through all its
\* successors.
VisitBarrierWait ==
    /\ rfm.pc = "visit"
    /\ rfm.to_visit # <<>>
    /\ Popped.kind = "op"
    /\ NodeOf(rfm.dag, Popped).name = "barrier"
    /\ CountOf(Popped) - 1 > 0
    /\ rfm' = [rfm EXCEPT !.to_visit = Rest,
                          !.barrier_encounters_remaining =
                              LET Other(p) == p[1] # Popped.id
                              IN Append(SelectSeq(@, Other),
                                        <<Popped.id, CountOf(Popped) - 1>>)]
    /\ UNCHANGED <<passVars, pc, call, result, flow, backend>>

\* Lines 49-63: the popped node is a measure, or a barrier met through the
\* last of its successors.
VisitFinal ==
    /\ rfm.pc = "visit"
    /\ rfm.to_visit # <<>>
    /\ Popped.kind = "op"
    /\ NodeOf(rfm.dag, Popped).name \in {"measure", "barrier"}
    /\ NodeOf(rfm.dag, Popped).name = "barrier" => ~(CountOf(Popped) - 1 > 0)
    /\ rfm' = [rfm EXCEPT !.to_visit = Rest \o quantum_predecessors(rfm.dag, Popped),
                          !.final_ops = Append(@, Popped),
                          !.barrier_encounters_remaining =
                              IF NodeOf(rfm.dag, Popped).name = "barrier" /\ ~Seen(Popped.id)
                              THEN Append(@, <<Popped.id, CountOf(Popped)>>) ELSE @]
    /\ UNCHANGED <<passVars, pc, call, result, flow, backend>>

\* Lines 46-60: the popped node is another operation.
VisitOther ==
    /\ rfm.pc = "visit"
    /\ rfm.to_visit # <<>>
    /\ Popped.kind = "op"
    /\ NodeOf(rfm.dag, Popped).name \notin {"measure", "barrier"}
    /\ rfm' = [rfm EXCEPT !.to_visit = Rest]
    /\ UNCHANGED <<passVars, pc, call, result, flow, backend>>

\* Lines 65 and 76-108: _calc_final_ops returns and run() removes the
\* nodes, registers and bits; remove_op_node of a node that is no longer
\* in the graph is an error.
RemoveAndReturn ==
    /\ rfm.pc = "visit"
    /\ rfm.to_visit = <<>>
    /\ rfm' = IF NoDuplicates(rfm.final_ops)
              THEN [rfm EXCEPT !.pc = "returned",
                               !.dag = RemoveFinal(rfm.dag, rfm.final_ops),
                               !.times = @ + 1]
              ELSE [rfm EXCEPT !.pc = "error"]
    /\ UNCHANGED <<passVars, pc, call, result, flow, backend>>

NextRfm ==
    CalcStart \/ VisitNonOp \/ VisitBarrierWait \/ VisitFinal \/ VisitOther \/ RemoveAndReturn

SpecRfm == InitRfm /\ [][NextRfm]_vars

\* The loop of _calc_final_ops and the rest of run() are sequential code:
\* a step that can be taken is taken.
SpecRfmFair == SpecRfm /\ WF_vars(NextRfm)

(* ------------------ FakeGeneric and _SimulatorBackend ------------------ *)
\* A Python object of a class, and a Python list.
Obj(cls) == [py |-> "object", cls |-> cls]
List(items) == [py |-> "list", items |-> items]

PulseClasses == {"Schedule", "ScheduleBlock"}

\* all(isinstance(x, classes) for x in items)
AllOf(items, classes) == \A k \in 1..Len(items) : items[k].cls \in classes

\* run(), the classification of the input: fake_generic.py lines 294-305,
\* simulator_backend.py lines 103-114.
pulse_job(run_input) ==
    IF run_input.py = "object"
    THEN IF run_input.cls \in PulseClasses THEN Some(TRUE)
         ELSE IF run_input.cls = "QuantumCircuit" THEN Some(FALSE) ELSE None
    ELSE IF run_input.items # <<>>
         THEN IF AllOf(run_input.items, PulseClasses) THEN Some(TRUE)
              ELSE IF AllOf(run_input.items, {"QuantumCircuit"}) THEN Some(FALSE) ELSE None
         ELSE None

\* _setup_sim(): the simulator the backend builds.
setup_sim(has_aer) == IF has_aer THEN Some("AerSimulator") ELSE Some("BasicAer")

\* The number of qubits of the heavy-hex lattice of distance d.
HeavyHexSize(d) == (5 * d * d - 2 * d - 1) \div 2

\* statistics.median_high of a non-empty set of integers.
median_high(S) ==
    CHOOSE x \in S : Cardinality({y \in S : y < x}) = Cardinality(S) \div 2

Raise(exc) == [tag |-> "Raise", exc |-> exc]

\* _get_cmap_args, lines 406-421.
get_cmap_args(coupling_map_type, num_qubits) ==
    IF coupling_map_type = "heavy_hex"
    THEN LET ds == {d \in {3, 5, 7, 9, 11, 13, 15, 17, 19} : HeavyHexSize(d) >= num_qubits}
         IN IF ds = {} THEN None ELSE Some(CHOOSE d \in ds : \A e \in ds : d <= e)
    ELSE IF coupling_map_type = "grid"
    THEN LET factors == {x \in 2..num_qubits : num_qubits % x = 0}
         IN IF factors = {} THEN Raise("StatisticsError")
            ELSE Some(<<median_high(factors), num_qubits \div median_high(factors)>>)
    ELSE None

\* CouplingMap(couplinglist).size(): the nodes 0..the largest index.
CouplingMapSize(coupling_map) ==
    1 + CHOOSE m \in 0..MaxIndex :
            /\ \E k \in 1..Len(coupling_map) : m \in {coupling_map[k][1], coupling_map[k][2]}
            /\ \A k \in 1..Len(coupling_map) : coupling_map[k][1] <= m /\ coupling_map[k][2] <= m

\* _set_coupling_map, lines 374-404: the final number of qubits, or the
\* exception.  num_qubits is None or Some(n), coupling_map None or a list
\* of edges.
set_coupling_map(num_qubits, coupling_map, coupling_map_type) ==
    IF coupling_map = None \/ coupling_map = Some(<<>>)
    THEN IF num_qubits = None \/ num_qubits = Some(0)
         THEN Raise("QiskitError")
         ELSE LET args == get_cmap_args(coupling_map_type, num_qubits.val)
              IN IF coupling_map_type = "heavy_hex"
                 THEN IF args = None THEN Raise("TypeError")
                      ELSE Some(HeavyHexSize(args.val))
                 ELSE IF coupling_map_type = "grid"
                 THEN IF args.tag = "Raise" THEN args
                      ELSE Some(args.val[1] * args.val[2])
                 ELSE Raise("QiskitError")
    ELSE Some(CouplingMapSize(coupling_map.val))

\* The arguments of the constructors.
NumQubitsArgs ==
    {None} \cup {Some(n) : n \in 0..MaxBackendQubits} \cup {Some(n) : n \in {57, 58, 883, 884}}
CouplingMapArgs ==
    {None, Some(<<>>), Some(<<<<0, 1>>>>), Some(<<<<0, 1>>, <<1, 2>>>>), Some(<<<<0, MaxIndex>>>>)}
CouplingMapTypes == {"grid", "heavy_hex", "ring"}

\* The inputs of run().
RunClasses == {"QuantumCircuit", "Schedule", "ScheduleBlock", "int"}
RunInputs ==
    {Obj(c) : c \in RunClasses}
    \cup {List(items) : items \in UNION {[1..n -> {Obj(c) : c \in RunClasses}] : n \in 0..MaxListLen}}

\* A backend object before its constructor has run.
NewBackend(cls, has_aer, num_qubits, coupling_map, coupling_map_type) ==
    [cls |-> cls, has_aer |-> has_aer,
     args |-> [num_qubits |-> num_qubits, coupling_map |-> coupling_map,
               coupling_map_type |-> coupling_map_type],
     status |-> "new", sim |-> None, num_qubits |-> None, runs |-> 0, last |-> None]

InitBackend ==
    /\ \E has_aer \in BOOLEAN :
          \/ \E n \in NumQubitsArgs, cm \in CouplingMapArgs, t \in CouplingMapTypes :
                backend = NewBackend("FakeGeneric", has_aer, n, cm, t)
          \/ \E n \in 1..MaxIndex :
                backend = NewBackend("_SimulatorBackend", has_aer, Some(n), None, "target")
    /\ pc = "backend"
    /\ self = NewPass(None, None)
    /\ dag = EmptyDag({})
    /\ runs = <<>>
    /\ qubits = <<>>
    /\ bases = <<>>
    /\ best_sequences = <<>>
    /\ index = 1
    /\ outs = <<>>
    /\ passes = <<self, self>>
    /\ dag_in = dag
    /\ call = None
    /\ result = None
    /\ flow = None
    /\ rfm = None

\* FakeGeneric.__init__, lines 108-146: self.sim = None and
\* _set_coupling_map.
ConstructFakeGeneric ==
    /\ backend.status = "new"
    /\ backend.cls = "FakeGeneric"
    /\ LET r == set_coupling_map(backend.args.num_qubits, backend.args.coupling_map,
                                 backend.args.coupling_map_type)
       IN backend' = IF r.tag = "Raise"
                     THEN [backend EXCEPT !.status = "failed", !.last = r]
                     ELSE [backend EXCEPT !.status = "constructed", !.num_qubits = r]
    /\ UNCHANGED <<passVars, pc, call, result, flow, rfm>>

\* _SimulatorBackend.__init__, simulator_backend.py lines 41-71.
ConstructSimulatorBackend ==
    /\ backend.status = "new"
    /\ backend.cls = "_SimulatorBackend"
    /\ backend' = [backend EXCEPT !.status = "constructed", !.num_qubits = backend.args.num_qubits]
    /\ UNCHANGED <<passVars, pc, call, result, flow, rfm>>

\* What a call of run() leaves for the properties to read.
Called(run_input, outcome) ==
    [tag |-> "Call", input |-> run_input, outcome |-> outcome, sim_before |-> backend.sim]

\* run() with an input that is no job: fake_generic.py lines 306-310,
\* simulator_backend.py lines 115-119.
RunInvalid ==
    /\ backend.status = "constructed"
    /\ backend.runs < MaxRuns
    /\ \E run_input \in RunInputs :
          /\ pulse_job(run_input) = None
          /\ backend' = [backend EXCEPT !.runs = @ + 1,
                                        !.last = Called(run_input, "QiskitError")]
    /\ UNCHANGED <<passVars, pc, call, result, flow, rfm>>

\* run() with a pulse job: fake_generic.py lines 311-312,
\* simulator_backend.py lines 120-121.
RunPulse ==
    /\ backend.status = "constructed"
    /\ backend.runs < MaxRuns
    /\ \E run_input \in RunInputs :
          /\ pulse_job(run_input) = Some(TRUE)
          /\ backend' = [backend EXCEPT !.runs = @ + 1,
                                        !.last = Called(run_input, "QiskitError")]
    /\ UNCHANGED <<passVars, pc, call, result, flow, rfm>>

\* run() with a circuit job: fake_generic.py lines 313-320,
\* simulator_backend.py lines 122-129.
RunCircuit ==
    /\ backend.status = "constructed"
    /\ backend.runs < MaxRuns
    /\ \E run_input \in RunInputs :
          /\ pulse_job(run_input) = Some(FALSE)
          /\ backend' = [backend EXCEPT !.runs = @ + 1,
                                        !.sim = IF @ = None THEN setup_sim(backend.has_aer) ELSE @,
                                        !.last = Called(run_input, "Job")]
    /\ UNCHANGED <<passVars, pc, call, result, flow, rfm>>

NextBackend ==
    ConstructFakeGeneric \/ ConstructSimulatorBackend \/ RunInvalid \/ RunPulse \/ RunCircuit

SpecBackend == InitBackend /\ [][NextBackend]_vars

(* -------------- the module-level and construction functions ------------ *)
\* The arguments of _possible_decomposers: None or a set of gate names.
BasisSets == {None} \cup {Some(B) : B \in SUBSET AllNames}

\* The gates and qargs the generated targets give properties for.
TargetGates == {"rz", "x"}
TargetQargs == {None} \cup {Some(<<q>>) : q \in Qubits}

Absent == [tag |-> "Absent"]

\* The gate maps of the generated targets: for each gate and qargs no
\* entry, an entry without error or an entry with an error; every map
\* has an entry for cx on the qubits 0 and 1.
GateMaps ==
    {{Entry(k[1], k[2], f[k]) : k \in {x \in TargetGates \X TargetQargs : f[x] # Absent}}
       \cup {Entry("cx", Some(<<0, 1>>), Some(1))} :
     f \in [TargetGates \X TargetQargs -> {Absent, None, Some(1)}]}

\* The arguments of _build_error_map: no target, or a target with or
\* without qubit count.
Targets ==
    {None} \cup {Some([num_qubits |-> n, gate_map |-> gm]) :
                    n \in {None} \cup {Some(k) : k \in 0..NumQubits}, gm \in GateMaps}

InitUnits ==
    /\ call \in {[fn |-> "_possible_decomposers", arg |-> b] : b \in BasisSets}
                \cup {[fn |-> "_build_error_map", arg |-> t] : t \in Targets}
    /\ result = None
    /\ pc = "unit"
    /\ self = NewPass(None, None)
    /\ dag = EmptyDag({})
    /\ runs = <<>>
    /\ qubits = <<>>
    /\ bases = <<>>
    /\ best_sequences = <<>>
    /\ index = 1
    /\ outs = <<>>
    /\ passes = <<self, self>>
    /\ dag_in = dag
    /\ flow = None
    /\ rfm = None
    /\ backend = None

\* Lines 273-294.
CallPossibleDecomposers ==
    /\ pc = "unit"
    /\ call.fn = "_possible_decomposers"
    /\ result' = Some(possible_decomposers(call.arg))
    /\ pc' = "done"
    /\ UNCHANGED <<self, dag, runs, qubits, bases, best_sequences, index, outs,
                   passes, dag_in, call, flow, rfm, backend>>

\* Lines 98-112, for a pass whose target is the argument.
CallBuildErrorMap ==
    /\ pc = "unit"
    /\ call.fn = "_build_error_map"
    /\ result' = Some(build_error_map(call.arg))
    /\ pc' = "done"
    /\ UNCHANGED <<self, dag, runs, qubits, bases, best_sequences, index, outs,
                   passes, dag_in, call, flow, rfm, backend>>

NextUnits == CallPossibleDecomposers \/ CallBuildErrorMap

SpecUnits == InitUnits /\ [][NextUnits]_vars

(* ------------------------- properties: helpers ------------------------- *)
MaxErr == 2

\* The (error, length) pairs a policy decision is quantified over.
ErrorPairs == (0..MaxErr) \X (0..(MaxOps + 1))

\* run() is about to decide on the run at the index.
AtRun == pc = "loop" /\ index <= Len(runs)

HasCandidate(i) == ~IsNone(best_sequences[i])

Calibrated(node) == <<node.name, node.qargs, node.params>> \in dag.calibrations

BasisConfigured(i) == ~IsNone(PolicyBasis(self, qubits[i]))

InBasis(node, i) == node.name \in PolicyBasis(self, qubits[i]).val

\* A basis is configured and a node of the run is outside it and uncalibrated.
OutOfBasis(i) ==
    /\ BasisConfigured(i)
    /\ \E k \in 1..Len(runs[i]) : ~InBasis(runs[i][k], i) /\ ~Calibrated(runs[i][k])

\* All the node objects of the run are (no node object of the run is) in d.
Kept(d, run) == \A k \in 1..Len(run) : InGraph(d, run[k])
Gone(d, run) == \A k \in 1..Len(run) : ~InGraph(d, run[k])

OldErr(i) == best_sequences[i].val.old_error
NewErr(i) == best_sequences[i].val.new_error

\* The two error rules, on the (error, length) pairs the oracle reported.
ErrorRules(i) ==
    \/ /\ \E k \in 1..Len(runs[i]) : ~Calibrated(runs[i][k])
       /\ \/ NewErr(i)[1] < OldErr(i)[1]
          \/ NewErr(i)[1] = OldErr(i)[1] /\ NewErr(i)[2] < OldErr(i)[2]
    \/ NewErr(i)[1] = 0 /\ OldErr(i)[1] # 0

\* The same with the errors compared as plain numbers.
ScalarErrorRules(i) ==
    \/ /\ \E k \in 1..Len(runs[i]) : ~Calibrated(runs[i][k])
       /\ NewErr(i)[1] < OldErr(i)[1]
    \/ NewErr(i)[1] = 0 /\ OldErr(i)[1] # 0

\* The node objects along wire q.
WireNodes(d, q) == LET p == WirePath(d, q) IN [k \in 1..Len(p) |-> d.nodes[p[k]]]

\* The operations along wire q, between its input and its output node.
WireOps(d, q) ==
    LET w == WireNodes(d, q)
    IN [k \in 1..(Len(w) - 2) |-> [name |-> w[k + 1].name, params |-> w[k + 1].params,
                                  qargs |-> w[k + 1].qargs]]

\* Position of a node object on a list of node objects (0 when absent).
PosOf(w, node) ==
    IF \E k \in 1..Len(w) : w[k].obj = node.obj
    THEN CHOOSE k \in 1..Len(w) : w[k].obj = node.obj ELSE 0

\* What a rewrite of run left on the wire in d2: the nodes between the
\* part of the wire before the run and the part after it in d1.
LeftOnWire(d1, d2, run) ==
    LET q == run[1].qargs[1]
        w1 == WireNodes(d1, q)
        w2 == WireNodes(d2, q)
        a == PosOf(w1, run[1])
    IN SubSeq(w2, a, Len(w2) - (Len(w1) - (a + Len(run) - 1)))

(* ------------------------------ claims --------------------------------- *)
\* C1: a run without candidate is kept: _substitution_checks answers False
\* for new_circ = None whatever the calibrations and the basis are, and the
\* step of run() for that run leaves the graph, global phase included, as
\* it was.
C1_NoCandidateKept ==
    [][(AtRun /\ ~HasCandidate(index)) =>
         /\ ~substitution_checks(self, dag, runs[index], None,
                                 PolicyBasis(self, qubits[index]), qubits[index], None, None)
         /\ dag' = dag]_vars

\* Witness of C1: a run out of basis, without candidate, passed and kept.
C1_Witness ==
    \E i \in 1..Len(runs) :
        /\ pc = "loop" /\ i < index
        /\ ~HasCandidate(i) /\ OutOfBasis(i)
        /\ Kept(dag, runs[i])

\* C2: a run with a candidate that is out of basis is replaced, and the
\* answer of _substitution_checks is True for every pair of error values.
C2_OutOfBasisReplaced ==
    [][(AtRun /\ HasCandidate(index) /\ OutOfBasis(index)) =>
         /\ Gone(dag', runs[index])
         /\ \A oe \in ErrorPairs, ne \in ErrorPairs :
              substitution_checks(self, dag, runs[index],
                                  Some(best_sequences[index].val.seq),
                                  PolicyBasis(self, qubits[index]), qubits[index],
                                  Some(oe), Some(ne))]_vars

\* Witness of C2: an out-of-basis run was replaced by a candidate whose
\* error is larger than that of the run.
C2_Witness ==
    \E i \in 1..Len(runs) :
        /\ pc = "loop" /\ i < index
        /\ HasCandidate(i) /\ OutOfBasis(i)
        /\ OldErr(i)[1] < NewErr(i)[1]
        /\ Gone(dag, runs[i])

\* C3 as stated: a run with a candidate that is not out of basis is replaced
\* exactly when it is uncalibrated and the candidate error is smaller, or
\* the candidate error is 0 and the original error is not.
C3_ScalarErrorRule ==
    [][(AtRun /\ HasCandidate(index) /\ ~OutOfBasis(index)) =>
         /\ Gone(dag', runs[index]) <=> ScalarErrorRules(index)
         /\ ~Gone(dag', runs[index]) => dag' = dag]_vars

\* C3 amended: ... exactly when it is uncalibrated and the candidate's
\* (error, number of gates) pair is smaller in Python's tuple order (smaller
\* error, or equal error and fewer gates), or the candidate error is 0 and
\* the original error is not; otherwise the graph is unchanged.
C3_ErrorRule ==
    [][(AtRun /\ HasCandidate(index) /\ ~OutOfBasis(index)) =>
         /\ Gone(dag', runs[index]) <=> ErrorRules(index)
         /\ ~Gone(dag', runs[index]) => dag' = dag]_vars

\* Witness of C3: a run in basis was replaced by a candidate of the same
\* error and fewer gates.
C3_Witness ==
    \E i \in 1..Len(runs) :
        /\ pc = "loop" /\ i < index
        /\ HasCandidate(i) /\ ~OutOfBasis(i)
        /\ NewErr(i)[1] = OldErr(i)[1] /\ NewErr(i)[2] < OldErr(i)[2]
        /\ Gone(dag, runs[i])

\* C4: when every node of the run whose name is outside the basis has a
\* calibration, the run is not forced: it is replaced exactly when the
\* error rules say so.
C4_CalibratedExempt ==
    [][(/\ AtRun /\ HasCandidate(index) /\ BasisConfigured(index)
        /\ \E k \in 1..Len(runs[index]) : ~InBasis(runs[index][k], index)
        /\ \A k \in 1..Len(runs[index]) :
             ~InBasis(runs[index][k], index) => Calibrated(runs[index][k])) =>
         (Gone(dag', runs[index]) <=> ErrorRules(index))]_vars

\* Witness of C4: a run with a calibrated node outside the basis and no
\* uncalibrated one outside it was passed and kept.
C4_Witness ==
    \E i \in 1..Len(runs) :
        /\ pc = "loop" /\ i < index
        /\ HasCandidate(i) /\ BasisConfigured(i)
        /\ \E k \in 1..Len(runs[i]) : ~InBasis(runs[i][k], i) /\ Calibrated(runs[i][k])
        /\ \A k \in 1..Len(runs[i]) : ~InBasis(runs[i][k], i) => Calibrated(runs[i][k])
        /\ Kept(dag, runs[i])

C6_BasisConformance ==
    pc = "returned" =>
        \A i \in 1..Len(runs) : \A k \in 1..Len(runs[i]) :
            (BasisConfigured(i) /\ InGraph(dag, runs[i][k]) /\ ~Calibrated(runs[i][k]))
                => InBasis(runs[i][k], i)

\* C6 amended: the same for the runs the oracle returned a candidate for.
C6_BasisConformanceWithCandidate ==
    pc = "returned" =>
        \A i \in 1..Len(runs) : \A k \in 1..Len(runs[i]) :
            (/\ HasCandidate(i) /\ BasisConfigured(i)
             /\ InGraph(dag, runs[i][k]) /\ ~Calibrated(runs[i][k]))
                => InBasis(runs[i][k], i)

\* Witness of C6: run() returned having replaced an out-of-basis run and
\* having kept another run, which has a candidate and uncalibrated nodes.
C6_Witness ==
    /\ pc = "returned"
    /\ \E i \in 1..Len(runs) : HasCandidate(i) /\ OutOfBasis(i) /\ Gone(dag, runs[i])
    /\ \E i \in 1..Len(runs) :
          /\ HasCandidate(i) /\ BasisConfigured(i) /\ Kept(dag, runs[i])
          /\ \E k \in 1..Len(runs[i]) : ~Calibrated(runs[i][k])

\* C7: for a run that is not out of basis, the error of what the step of
\* run() leaves on the wire in place of the run is at most the error of
\* the run.
C7_ErrorMonotone ==
    [][(AtRun /\ ~OutOfBasis(index)) =>
         compute_error(Names(LeftOnWire(dag, dag', runs[index])), qubits[index],
                       self.error_map)[1]
           <= compute_error(Names(runs[index]), qubits[index], self.error_map)[1]]_vars

\* Witness of C7: a run in basis was replaced by a candidate of strictly
\* lower error, under an error table.
C7_Witness ==
    \E i \in 1..Len(runs) :
        /\ pc = "loop" /\ i < index
        /\ HasCandidate(i) /\ ~OutOfBasis(i) /\ ~IsNone(self.error_map)
        /\ NewErr(i)[1] < OldErr(i)[1]
        /\ Gone(dag, runs[i])

\* The wires and the global phase of a graph.
Content(d) == <<[q \in Qubits |-> WireOps(d, q)], d.global_phase>>

\* C8: the operations on every wire and the global phase after the second
\* run() equal those after the first.
C8_Idempotent == Len(outs) = 2 => Content(outs[2]) = Content(outs[1])

\* Witness of C8: both invocations returned, the first one having replaced
\* a run by a non-empty sequence with a non-zero phase.
C8_Witness ==
    /\ Len(outs) = 2
    /\ outs[1].free # <<>>
    /\ outs[1].global_phase # 0
    /\ \E q \in Qubits : WireOps(outs[1], q) # <<>>

\* C9: after a run is replaced, its wire reads: the nodes before the run,
\* then one new node per gate of the sequence in the sequence's order, on
\* the qubit of the run, then the nodes after the run; the other wires are
\* as they were.
C9_Spliced ==
    [][(AtRun /\ Gone(dag', runs[index])) =>
         LET run == runs[index]
             q == qubits[index]
             gates == best_sequences[index].val.seq.gates
             w1 == WireNodes(dag, q)
             w2 == WireNodes(dag', q)
             a == PosOf(w1, run[1])
             left == LeftOnWire(dag, dag', run)
         IN /\ Len(w2) = Len(w1) - Len(run) + Len(gates)
            /\ SubSeq(w2, 1, a - 1) = SubSeq(w1, 1, a - 1)
            /\ SubSeq(w2, a + Len(gates), Len(w2)) = SubSeq(w1, a + Len(run), Len(w1))
            /\ NodeOps(left) = gates
            /\ \A k \in 1..Len(left) :
                 /\ left[k].qargs = <<q>>
                 /\ left[k].obj >= dag.next_obj
                 /\ \A j \in 1..Len(left) : left[j].obj = left[k].obj => j = k
            /\ \A r \in Qubits \ {q} : WireNodes(dag', r) = WireNodes(dag, r)]_vars

\* Witness of C9: a run between two other nodes was replaced by a sequence
\* of two gates, which are on the wire.
C9_Witness ==
    \E i \in 1..Len(runs) :
        /\ pc = "loop" /\ i + 1 = index
        /\ HasCandidate(i) /\ Gone(dag, runs[i])
        /\ Len(best_sequences[i].val.seq.gates) = 2
        /\ \E k \in 2..(Len(WireOps(dag, qubits[i])) - 2) :
              /\ WireOps(dag, qubits[i])[k].name = best_sequences[i].val.seq.gates[1].name
              /\ WireOps(dag, qubits[i])[k + 1].name = best_sequences[i].val.seq.gates[2].name
              /\ WireOps(dag, qubits[i])[k - 1].name = "cx"
              /\ WireOps(dag, qubits[i])[k + 2].name = "cx"

\* Nodes reachable from a set of nodes along the edges.
RECURSIVE ReachFrom(_, _, _)
ReachFrom(d, from, fuel) ==
    LET next == from \cup {e[2] : e \in {x \in d.edges : x[1] \in from}}
    IN IF fuel = 0 \/ next = from THEN from ELSE ReachFrom(d, next, fuel - 1)

Acyclic(d) ==
    \A n \in DOMAIN d.nodes :
        n \notin ReachFrom(d, {e[2] : e \in {x \in d.edges : x[1] = n}},
                           Cardinality(DOMAIN d.nodes))

\* Wire q is one path from its input node to its output node that holds
\* all the edges of the wire and all the nodes acting on q.
SinglePath(d, q) ==
    LET p == WirePath(d, q)
    IN /\ p[1] = InNode(q) /\ p[Len(p)] = OutNode(q)
       /\ {e \in d.edges : e[3] = q} = {<<p[k], p[k + 1], q>> : k \in 1..(Len(p) - 1)}
       /\ Cardinality({e \in d.edges : e[3] = q}) = Len(p) - 1
       /\ {n \in DOMAIN d.nodes : \E k \in 1..Len(d.nodes[n].qargs) : d.nodes[n].qargs[k] = q}
            = Range(p)

\* C10: the graph is acyclic, every wire is a single path from its input to
\* its output node, and no edge refers to a node that is not in the graph.
C10_TopologicallyValid ==
    /\ Acyclic(dag)
    /\ \A q \in Qubits : SinglePath(dag, q)
    /\ \A e \in dag.edges : e[1] \in DOMAIN dag.nodes /\ e[2] \in DOMAIN dag.nodes

\* Witness of C10: two runs of one invocation have been replaced.
C10_Witness ==
    \E i \in 1..Len(runs), j \in 1..Len(runs) :
        /\ pc = "loop" /\ i < j /\ j < index
        /\ HasCandidate(i) /\ Gone(dag, runs[i])
        /\ HasCandidate(j) /\ Gone(dag, runs[j])
        /\ best_sequences[j].val.seq.gates # <<>>


(* -------------------- claims on the graph rewriter --------------------- *)
\* The global phase of the graph handed to the invocation in progress (or,
\* after the return, to the invocation that returned).
PhaseAtCall ==
    LET n == IF pc = "returned" THEN Len(outs) - 1 ELSE Len(outs)
    IN IF n = 0 THEN dag_in.global_phase ELSE outs[n].global_phase

\* The sum of the global phases of the candidates of the replaced runs
\* among the first k collected runs.
RECURSIVE AcceptedPhase(_)
AcceptedPhase(k) ==
    IF k = 0 THEN 0
    ELSE AcceptedPhase(k - 1)
         + (IF HasCandidate(k) /\ Gone(dag, runs[k])
            THEN best_sequences[k].val.seq.global_phase ELSE 0)

\* C11: during and after run() the global phase of the graph is the phase
\* it had at the call plus the global phases of the candidates of the runs
\* replaced so far, each counted once; kept runs and runs without
\* candidate contribute nothing.
C11_GlobalPhase ==
    pc \in {"loop", "returned"} =>
        dag.global_phase =
            (PhaseAtCall + AcceptedPhase(IF index > Len(runs) THEN Len(runs) ELSE index - 1))
                % NumPhase

\* Witness of C11: run() returned after replacing a run by a candidate of
\* non-zero phase and keeping a run whose candidate has a non-zero phase.
C11_Witness ==
    /\ pc = "returned"
    /\ \E i \in 1..Len(runs), j \in 1..Len(runs) :
          /\ HasCandidate(i) /\ Gone(dag, runs[i])
          /\ best_sequences[i].val.seq.global_phase # 0
          /\ best_sequences[i].val.seq.gates # <<>>
          /\ HasCandidate(j) /\ Kept(dag, runs[j])
          /\ best_sequences[j].val.seq.global_phase # 0


\* The number of operation nodes of d that carry the name.
NodesNamed(d, name) ==
    Cardinality({i \in DOMAIN d.nodes : d.nodes[i].type = "op" /\ d.nodes[i].name = name})

\* C12: the graph's per-name operation counters agree with its nodes: they
\* do at the call of run(), and after every rewrite of run() and at its
\* return the counter of every name is the number of nodes of that name.
C12_CountersMatch ==
    \A name \in DOMAIN dag.op_names : dag.op_names[name] = NodesNamed(dag, name)

\* Witness of C12: run() returned a graph in which a run was replaced by
\* gates of a name the graph did not hold at the call, and the name of a
\* removed node is no longer in the graph.
C12_Witness ==
    /\ pc = "returned" /\ Len(outs) = 1
    /\ \E name \in DOMAIN dag.op_names :
          NodesNamed(dag_in, name) = 0 /\ dag.op_names[name] > 0
    /\ \E name \in DOMAIN dag.op_names :
          NodesNamed(dag_in, name) > 0 /\ dag.op_names[name] = 0


\* The node objects of d.
Objects(d) == {d.nodes[i] : i \in DOMAIN d.nodes}

\* The objects of wire q of d, in wire order, that are in the set.
WireAmong(d, q, set) ==
    LET In(n) == n \in set IN SelectSeq(WireNodes(d, q), In)

\* How many times the index occurs among the freed indices of d.
TimesFreed(d, id) == Cardinality({j \in 1..Len(d.free) : d.free[j] = id})

\* C13: frame of a step of run().  The nodes of the run at the index are
\* in the graph when their turn comes and no node is in two runs; if the
\* step rewrites the graph they are all absent afterwards and the index of
\* each was freed exactly once; whether or not it does, every other node
\* of the graph (operations on several qubits, kept runs, other wires) is
\* still there, the same object with the same index and operation, and in
\* the same order on every wire.
C13_Frame ==
    [][AtRun =>
         LET run == runs[index]
             rest == Objects(dag) \ Range(run)
         IN /\ Kept(dag, run)
            /\ \A i \in 1..Len(runs), j \in 1..Len(runs) :
                 \A k \in 1..Len(runs[i]), l \in 1..Len(runs[j]) :
                    runs[i][k].obj = runs[j][l].obj => (i = j /\ k = l)
            /\ dag' # dag =>
                 /\ Gone(dag', run)
                 /\ \A k \in 1..Len(run) : TimesFreed(dag', run[k].node_id) = 1
            /\ dag' = dag => Kept(dag', run)
            /\ rest \subseteq Objects(dag')
            /\ \A q \in Qubits : WireAmong(dag', q, rest) = WireAmong(dag, q, rest)]_vars

\* Witness of C13: a graph with an operation on two qubits in which one
\* run was replaced and another run, already passed, was kept.
C13_Witness ==
    /\ pc = "loop"
    /\ \E i \in 1..Len(runs), j \in 1..Len(runs) :
          /\ i < index /\ j < index
          /\ Gone(dag, runs[i])
          /\ Kept(dag, runs[j])
    /\ \E n \in Objects(dag) : n.type = "op" /\ Len(n.qargs) = 2


(* ---------------- claims on the catalog and the error table ------------ *)
\* The families whose gates are all in the set B.
Eligible(B) ==
    {n \in Range(EulerBasisNames) : Range(ONE_QUBIT_EULER_BASIS_GATES[n]) \subseteq B}

\* C14: _possible_decomposers(None) returns every known family; for a set
\* B it returns, each once, exactly the families whose gates are all in
\* B, without U3 when U321 is among them and without ZSX when ZSXX is.
C14_Catalog ==
    (pc = "done" /\ call.fn = "_possible_decomposers") =>
        LET out == result.val
        IN /\ NoDuplicates(out)
           /\ IsNone(call.arg) => Range(out) = Range(EulerBasisNames)
           /\ ~IsNone(call.arg) =>
                LET B == call.arg.val
                IN Range(out) =
                     (Eligible(B) \ (IF "U321" \in Eligible(B) THEN {"U3"} ELSE {}))
                        \ (IF "ZSXX" \in Eligible(B) THEN {"ZSX"} ELSE {})

\* Witness of C14: the function was applied to a set in which U3, U321,
\* ZSX and ZSXX are all expressible, and returned U321 and ZSXX.
C14_Witness ==
    /\ pc = "done" /\ call.fn = "_possible_decomposers"
    /\ ~IsNone(call.arg)
    /\ {"U3", "U321", "ZSX", "ZSXX"} \subseteq Eligible(call.arg.val)
    /\ {"U321", "ZSXX"} \subseteq Range(result.val)


\* C17: for a target with qubit count n, _build_error_map returns a table
\* of n entries in qubit order, and entry q maps gate g to error e exactly
\* when the target holds properties for g at the qargs (q,) with the
\* non-null error e: nothing of another qubit, of a pair of qubits or of a
\* globally defined gate is in it.  Without target, or for a target
\* without qubit count, the table is None.
C17_ErrorTable ==
    (pc = "done" /\ call.fn = "_build_error_map") =>
        LET target == call.arg
            out == result.val
        IN IF IsNone(target) \/ IsNone(target.val.num_qubits)
           THEN IsNone(out)
           ELSE /\ ~IsNone(out)
                /\ Len(out.val) = target.val.num_qubits.val
                /\ \A q \in 0..(target.val.num_qubits.val - 1) :
                     /\ DOMAIN out.val[q + 1] \subseteq {e.gate : e \in target.val.gate_map}
                     /\ \A x \in target.val.gate_map :
                          (x.qargs = Some(<<q>>) /\ ~IsNone(x.error)) =>
                             /\ x.gate \in DOMAIN out.val[q + 1]
                             /\ out.val[q + 1][x.gate] = x.error.val
                     /\ \A g \in DOMAIN out.val[q + 1] :
                          Entry(g, Some(<<q>>), Some(out.val[q + 1][g])) \in target.val.gate_map

\* Witness of C17: the table of a target of two or more qubits that has an
\* error for rz on qubit 0 only, x on qubit 1 without error, a globally
\* defined gate and an error for cx on the qubits 0 and 1.
C17_Witness ==
    /\ pc = "done" /\ call.fn = "_build_error_map"
    /\ ~IsNone(call.arg) /\ ~IsNone(result.val)
    /\ Len(result.val.val) >= 2
    /\ DOMAIN result.val.val[1] = {"rz"}
    /\ DOMAIN result.val.val[2] = {}
    /\ Entry("x", Some(<<1>>), None) \in call.arg.val.gate_map
    /\ Entry("x", None, None) \in call.arg.val.gate_map
    /\ Entry("cx", Some(<<0, 1>>), Some(1)) \in call.arg.val.gate_map


\* The catalog does not hold both U3 and U321 nor both ZSX and ZSXX.
NoRedundantPair(l) ==
    /\ ~({"U3", "U321"} \subseteq Range(l))
    /\ ~({"ZSX", "ZSXX"} \subseteq Range(l))

\* C15 as stated: in no configuration does a catalog of the pass, the
\* global one built by __init__ or one looked up for the qubit of a run,
\* hold both U3 and U321 or both ZSX and ZSXX.
C15_NoRedundantPair ==
    /\ NoRedundantPair(self.global_decomposers)
    /\ \A i \in 1..Len(bases) : NoRedundantPair(bases[i])

\* C15: when the pass was built with a non-empty basis or with a target,
\* no catalog of the pass, the global one built by __init__ or one looked
\* up for the qubit of a run, holds both U3 and U321 or both ZSX and ZSXX.
C15_NoRedundantPairRestricted ==
    (~IsNone(self.basis_gates) \/ ~IsNone(self.target)) =>
        /\ NoRedundantPair(self.global_decomposers)
        /\ \A i \in 1..Len(bases) : NoRedundantPair(bases[i])

\* Witness of C15: the target of the pass has rz, sx and x on the qubit of
\* a run, whose catalog holds ZSXX without ZSX, and the basis argument has
\* u3, u2 and u1, for which the global catalog holds U321 without U3.
C15_Witness ==
    /\ pc = "loop"
    /\ ~IsNone(self.target) /\ ~IsNone(self.basis_gates)
    /\ {"u3", "u2", "u1"} \subseteq Range(self.basis_gates.val)
    /\ "U321" \in Range(self.global_decomposers)
    /\ \E i \in 1..Len(bases) :
          /\ {"rz", "sx", "x"} \subseteq operation_names_for_qargs(self.target.val, <<qubits[i]>>).val
          /\ "ZSXX" \in Range(bases[i])


\* C16 as stated: with a target that has a qubit count, once run() has
\* looked the catalogs of its runs up, the cache of the pass holds, under
\* the key of the qubit of every run, the catalog that lookup returned.
C16_CacheFilled ==
    (pc = "loop" /\ ~IsNone(self.target) /\ ~IsNone(self.target.val.num_qubits)) =>
        \A i \in 1..Len(runs) :
            \E c \in self.local_decomposers_cache : c[1] = <<qubits[i]>> /\ c[2] = bases[i]


C18_DegenerateTargetSubstitutes ==
    [][(/\ AtRun
        /\ ~IsNone(self.target) /\ IsNone(self.target.val.num_qubits)
        /\ OutOfBasis(index)
        /\ \A k \in 1..Len(runs[index]) : ~Calibrated(runs[index][k])
        /\ Eligible(PolicyBasis(self, qubits[index]).val) # {}) =>
         /\ IsNone(self.error_map)
         /\ Gone(dag', runs[index])
         /\ \A n \in Objects(dag') \ Objects(dag) :
               n.name \in PolicyBasis(self, qubits[index]).val]_vars

\* C19 as stated: two passes built with the same target and any two basis
\* arguments look the same catalog up for every qubit, give the policy the
\* same basis, and return the same graph for copies of the same graph.
C19_BasisIgnored ==
    (/\ Len(outs) = 2
     /\ ~IsNone(passes[1].target)
     /\ passes[1].target = passes[2].target) =>
        /\ \A q \in Qubits :
              /\ get_decomposer(passes[1], q) = get_decomposer(passes[2], q)
              /\ PolicyBasis(passes[1], q) = PolicyBasis(passes[2], q)
        /\ outs[2] = outs[1]

(* ------------------- claims on the basis argument ---------------------- *)
\* The pass was built without target and with a non-empty basis in which
\* no Euler family is expressible.
NoFamilyBasis ==
    /\ IsNone(self.target)
    /\ ~IsNone(self.basis_gates)
    /\ self.basis_gates.val # <<>>
    /\ Eligible(Range(self.basis_gates.val)) = {}

\* C30: without target, the pass built with the empty list as basis has
\* no basis: its catalog is all the Euler families and no run of it is
\* flagged out of basis; the pass built with a non-empty basis in which no
\* family is expressible has an empty catalog, and no step of its run()
\* changes the graph.
C30_EmptyAndUselessBasis ==
    /\ [](self = NewPass(Some(<<>>), None) =>
            /\ IsNone(self.basis_gates)
            /\ self.global_decomposers = EulerBasisNames
            /\ \A i \in 1..Len(runs) :
                 /\ bases[i] = EulerBasisNames
                 /\ ~uncalibrated_and_not_basis_p(dag, runs[i], PolicyBasis(self, qubits[i])))
    /\ [](NoFamilyBasis =>
            /\ self.global_decomposers = <<>>
            /\ \A i \in 1..Len(runs) : bases[i] = <<>> /\ ~HasCandidate(i))
    /\ [][NoFamilyBasis => dag' = dag]_vars

\* Witness of C30: the pass built with the empty list has replaced a run
\* that holds a gate of no Euler family.
C30_Witness ==
    /\ self = NewPass(Some(<<>>), None)
    /\ pc = "returned"
    /\ \E i \in 1..Len(runs) :
          /\ Gone(dag, runs[i])
          /\ \E k \in 1..Len(runs[i]) : runs[i][k].name = "h"

\* A pass built with a basis without family has returned a graph with a
\* run outside that basis.
NoFamilyBasisReturned ==
    /\ NoFamilyBasis
    /\ pc = "returned"
    /\ \E i \in 1..Len(runs) : OutOfBasis(i) /\ Kept(dag, runs[i])

(* ------------------ claims on the control-flow recursion --------------- *)
\* The graph but for the block k of its node n.
ExceptBlock(d, n, k) == [d EXCEPT !.nodes[n].params[k] = BlockEmpty]

\* Every block of the circuit, at every depth, is a circuit run() leaves
\* as it is.
RECURSIVE Processed(_)
Processed(circuit) ==
    LET d == circuit_to_dag(circuit)
    IN /\ ~RaisesKeyError(self, d)
       /\ RunMethod(self, d) = d
       /\ \A i \in 1..Len(circuit.instrs) :
            circuit.instrs[i].op.name \in ControlFlowNames =>
               \A k \in 1..Len(circuit.instrs[i].op.params) :
                   Processed(circuit.instrs[i].op.params[k])

\* C21: when the recursion returns, every block of every control-flow
\* node, at every depth, has been processed by run() (run() would leave it
\* as it is); and the steps of the recursion inside a block change nothing
\* of the enclosing graphs: run() on the graph of a block leaves every
\* enclosing frame as it was, and the return from a block changes, in the
\* enclosing graph, the body of its control-flow node only (same nodes,
\* edges, counters and global phase).
C21_BlocksProcessedInIsolation ==
    /\ [](flow.status = "returned" =>
            \A n \in DOMAIN Top.dag.nodes :
                Top.dag.nodes[n].name \in ControlFlowNames =>
                   \A k \in 1..Len(Top.dag.nodes[n].params) :
                       Processed(Top.dag.nodes[n].params[k]))
    /\ [][(flow.status = "running" /\ Len(flow.stack) > 1) =>
            LET up == Len(flow.stack) - 1
            IN /\ \A i \in 1..(up - 1) : flow'.stack[i] = flow.stack[i]
               /\ Len(flow'.stack) >= Len(flow.stack) => flow'.stack[up] = flow.stack[up]
               /\ Len(flow'.stack) < Len(flow.stack) =>
                    LET n == Head(flow.stack[up].todo)[1]
                        k == Head(flow.stack[up].todo)[2]
                    IN /\ ExceptBlock(flow'.stack[up].dag, n, k)
                            = ExceptBlock(flow.stack[up].dag, n, k)
                       /\ flow'.stack[up].dag.nodes[n].params[k]
                            = dag_to_circuit(Top.dag)]_vars

\* Witness of C21: the recursion returned from a block at depth two whose
\* run was replaced and whose global phase changed, into a block that has a
\* run of its own.
C21_Witness ==
    /\ flow.status = "running"
    /\ Len(flow.stack) = 2
    /\ ~Top.done
    /\ Top.todo = <<>>
    /\ \E n \in DOMAIN Top.dag.nodes :
          /\ Top.dag.nodes[n].name \in ControlFlowNames
          /\ Top.dag.nodes[n].params[1].global_phase # 0
          /\ Top.dag.nodes[n].params[1] # BlockH
    /\ collect_1q_runs(Top.dag) # <<>>

\* C22 as stated: run() does not return normally from a block that holds
\* a run and whose qubit count differs from that of the enclosing graph:
\* the pass ends in an error instead.
C22_MalformedBlockIsFatal ==
    \A i \in 2..Len(flow.stack) :
        (flow.stack[i].num_qubits # flow.stack[i - 1].num_qubits /\ flow.stack[i].had_runs)
            => ~flow.stack[i].done

(* ----------------------------- C23 ------------------------------------- *)
\* The operations of the graph that follow the node at position i: those
\* after it that share a qubit or a classical wire with it or with an
\* operation that follows it.
RECURSIVE FollowersFrom(_, _, _)
FollowersFrom(d, j, acc) ==
    IF j > Len(d.ops) THEN acc
    ELSE LET Wires(n) == [q |-> Range(n.qargs), c |-> Range(n.cargs) \cup n.cond]
             Shares(a, b) == Wires(a).q \cap Wires(b).q # {} \/ Wires(a).c \cap Wires(b).c # {}
         IN FollowersFrom(d, j + 1,
                IF \E a \in acc : Shares(d.ops[a], d.ops[j]) THEN acc \cup {j} ELSE acc)

Followers(d, i) == FollowersFrom(d, i + 1, {i}) \ {i}

\* The node at position i of the graph is final.
IsFinal(d, i) ==
    /\ d.ops[i].name \in {"measure", "barrier"}
    /\ \A j \in Followers(d, i) : d.ops[j].name \in {"measure", "barrier"}

\* The ids of the nodes the call that returned has removed.
RemovedIds ==
    {rfm.input.ops[i].id : i \in 1..Len(rfm.input.ops)}
        \ {rfm.dag.ops[i].id : i \in 1..Len(rfm.dag.ops)}

\* C23: run() removes only measure and barrier nodes, and such a node only
\* if every operation that follows it on its qubit or classical wires,
\* transitively, is a measure or a barrier.
C23_OnlyFinalRemoved ==
    rfm.pc = "returned" =>
        \A id \in RemovedIds : IsFinal(rfm.input, PosOfId(rfm.input, id))

(* ----------------------------- C28 ------------------------------------- *)
\* The node is the output node of a qubit or one of the nodes appended.
FinalSuccessor(ref) == ref.kind = "out" \/ ref \in Range(rfm.final_ops)

\* The list holds no node twice, every node of it is a measure or a
\* barrier, and every barrier of it has only output nodes and appended
\* nodes as quantum successors.
AppendedOnce ==
    /\ rfm.pc # "error"
    /\ NoDuplicates(rfm.final_ops)
    /\ \A k \in 1..Len(rfm.final_ops) :
          /\ NodeOf(rfm.input, rfm.final_ops[k]).name \in {"measure", "barrier"}
          /\ \A s \in quantum_successors(rfm.input, rfm.final_ops[k]) : FinalSuccessor(s)

\* C28: _calc_final_ops terminates and returns each final node once: no
\* node is appended twice, a barrier is appended only when all its quantum
\* successors are final, and the same node is never removed twice.
C28_TerminatesEachNodeOnce ==
    /\ []AppendedOnce
    /\ (rfm.pc = "visit") ~> (rfm.pc = "returned")

\* A barrier over both qubits has been met twice and appended once, after
\* the two measures that follow it, and the call has returned.
C28_Witness ==
    /\ rfm.pc = "returned"
    /\ Len(rfm.final_ops) = 3
    /\ \E k \in 1..3 :
          /\ NodeOf(rfm.input, rfm.final_ops[k]).name = "barrier"
          /\ Len(NodeOf(rfm.input, rfm.final_ops[k]).qargs) = 2
          /\ \A s \in quantum_successors(rfm.input, rfm.final_ops[k]) : s.kind = "op"

(* ----------------------------- C24 ------------------------------------- *)
\* An operation of the graph reads or writes the bit.
UsedIn(d, c) ==
    \E i \in 1..Len(d.ops) : c \in Range(d.ops[i].cargs) \/ c \in d.ops[i].cond

\* The bit was in use when run() was called and is not any more.
BecameUnused(c) == UsedIn(rfm.input, c) /\ ~UsedIn(rfm.dag, c)

C25_BitRemovedIff ==
    rfm.pc = "returned" =>
        \A c \in rfm.input.clbits :
            c \notin rfm.dag.clbits
                <=> /\ \/ BecameUnused(c)
                       \/ \E r \in rfm.input.cregs \ rfm.dag.cregs : c \in Range(r.bits)
                    /\ \A r \in rfm.dag.cregs : c \notin Range(r.bits)

\* The same without the bits of the removed registers: a bit is removed if
\* and only if it became unused and appears in no register that remains.
BitRemovedIffBecameUnused ==
    rfm.pc = "returned" =>
        \A c \in rfm.input.clbits :
            c \notin rfm.dag.clbits
                <=> /\ BecameUnused(c)
                    /\ \A r \in rfm.dag.cregs : c \notin Range(r.bits)

(* ----------------------------- C29 ------------------------------------- *)
\* On the output of run(), _calc_final_ops returns no node and run()
\* returns the graph as it got it.
SecondRunChangesNothing ==
    (rfm.pc = "returned" /\ rfm.times = 2) =>
        rfm.final_ops = <<>> /\ rfm.dag = rfm.input

\* C29: a second run() finds no node and leaves the graph unchanged, and
\* run() changes nothing when no measure or barrier of its input is final.
C29_Idempotent ==
    /\ SecondRunChangesNothing
    /\ (rfm.pc = "returned" /\ \A i \in 1..Len(rfm.input.ops) : ~IsFinal(rfm.input, i))
          => rfm.dag = rfm.input

(* ----------------------------- C26 ------------------------------------- *)
\* The input is a circuit, a schedule or schedule block, or a non-empty
\* list made only of circuits or only of schedules and schedule blocks.
ValidInput(x) ==
    \/ x.py = "object" /\ x.cls \in {"QuantumCircuit", "Schedule", "ScheduleBlock"}
    \/ /\ x.py = "list"
       /\ x.items # <<>>
       /\ \/ \A k \in 1..Len(x.items) : x.items[k].cls = "QuantumCircuit"
          \/ \A k \in 1..Len(x.items) : x.items[k].cls \in {"Schedule", "ScheduleBlock"}

\* The valid input is a pulse job.
PulseInput(x) ==
    \/ x.py = "object" /\ x.cls \in {"Schedule", "ScheduleBlock"}
    \/ x.py = "list" /\ \A k \in 1..Len(x.items) : x.items[k].cls \in {"Schedule", "ScheduleBlock"}

HasRun == backend.status = "constructed" /\ backend.runs > 0

\* run() raises QiskitError when the input is invalid and leaves the
\* simulator field as it was when it raises; a circuit job returns the
\* simulator's job.
RunRejectsInvalid ==
    HasRun =>
        /\ ~ValidInput(backend.last.input) => backend.last.outcome = "QiskitError"
        /\ backend.last.outcome = "QiskitError" => backend.sim = backend.last.sim_before
        /\ (ValidInput(backend.last.input) /\ ~PulseInput(backend.last.input))
              => backend.last.outcome = "Job" /\ backend.sim # None

\* C26: run() raises QiskitError exactly when the input is invalid, or is
\* a pulse job while qiskit-aer is not installed; otherwise it returns
\* the simulator's job.  A rejected call leaves the simulator field as it
\* was.
C26_RunRaisesExactly ==
    HasRun =>
        /\ backend.last.outcome = "QiskitError"
              <=> \/ ~ValidInput(backend.last.input)
                  \/ PulseInput(backend.last.input) /\ ~backend.has_aer
        /\ backend.last.outcome # "QiskitError" => backend.last.outcome = "Job"
        /\ backend.last.outcome = "QiskitError" => backend.sim = backend.last.sim_before

(* ----------------------------- C27 ------------------------------------- *)
\* C27: whenever the construction of a FakeGeneric succeeds, its final
\* number of qubits is at least the num_qubits argument.
C27_NumQubitsIsMinimum ==
    (backend.cls = "FakeGeneric" /\ backend.status = "constructed"
        /\ backend.args.num_qubits # None)
        => backend.num_qubits.val >= backend.args.num_qubits.val

\* The same for the backends built without an explicit coupling map.
NumQubitsIsMinimumGenerated ==
    (backend.cls = "FakeGeneric" /\ backend.status = "constructed"
        /\ backend.args.num_qubits # None
        /\ backend.args.coupling_map \in {None, Some(<<>>)})
        => backend.num_qubits.val >= backend.args.num_qubits.val

====
